---- MODULE Spec2Model ----
(***************************************************************************)
(* OneAgenda mesh orchestrator: the checkpoint gate, the identifier        *)
(* reconciliation passes (normalizeGoalPlanIds, normalizeTaskBreakdownIds) *)
(* and the four-phase orchestrate() run with its resilience store.         *)
(*                                                                         *)
(* Identifiers are strings in the source.  They are encoded as integers:   *)
(*   1..9        ids invented by a worker ("g-a", "t-x", ...)              *)
(*   10 + i      the positional alias `goal_${i}`                          *)
(*   20 + j      the positional alias `milestone_${j}`                     *)
(*   30 + j      the zero-padded alias `milestone_00${j}`                  *)
(*   40 + k      the positional alias `task_${k}`                          *)
(*   0           the sentinel 'milestone_default'                          *)
(*   > StableBase  ids returned by createId()                              *)
(***************************************************************************)
EXTENDS Integers, Sequences, FiniteSets, TLC

\* ===================================================================== state
VARIABLES
  \* reconciliation engine applied to a raw worker output, twice
  rawGoalPlan, rawBreakdown, reconPc, reconRun, idCounter,
  reconGoalPlan, reconGoalIdMap, reconMilestoneIdMap, reconBreakdown,
  firstGoalPlan, firstBreakdown,
  \* assertCheckpoint applied to a checkpoint
  gateCheckpoint, gateOutcome,
  \* the resilience store: the run records, oldest first
  runs,
  \* one orchestrate() call: where it stands, its locals, its stages
  pc, step, calls, callInput, runId, callStart, stage, invoked,
  context, contextSet, checkpoints, localGoalIdMap, nextId, result, aborted,
  \* the runs whose call returned a plan
  doneRuns,
  \* stages of a returned call that are still in flight
  zombies,
  \* the events sent from the call's terminal event on, that event first
  sentFromTerminal,
  \* per run and phase, the entity ids in the arguments its stages were given
  handedIds,
  \* buildFinalPlan applied to a context
  planContext, planFields, planPc, builtPlan,
  \* savePlan applied to a plan
  savePc, saveInput, saveResult

varsRecon == <<rawGoalPlan, rawBreakdown, reconPc, reconRun, idCounter,
               reconGoalPlan, reconGoalIdMap, reconMilestoneIdMap, reconBreakdown,
               firstGoalPlan, firstBreakdown>>
varsGate == <<gateCheckpoint, gateOutcome>>
varsOrch == <<runs, pc, step, calls, callInput, runId, callStart, stage, invoked,
              context, contextSet, checkpoints, localGoalIdMap, nextId, result, aborted,
              doneRuns, zombies, sentFromTerminal, handedIds>>
varsPlan == <<planContext, planFields, planPc, builtPlan>>
varsSave == <<savePc, saveInput, saveResult>>
vars == <<varsRecon, varsGate, varsOrch, varsPlan, varsSave>>

\* ------------------------------------------------------------------ bounds
MaxGoals == 2
MaxMilestones == 2
MaxTasks == 3
MaxCalls == 2

\* ------------------------------------------------------------ identifiers
StableBase == 100

\* n-th id handed out by createId(): fresh, never equal to a worker's id.
CreateId(n) == StableBase + n

IsStableId(x) == x > StableBase

GoalAlias(i) == 10 + i
MilestoneAlias(j) == 20 + j
MilestoneAliasPadded(j) == 30 + j
TaskAlias(k) == 40 + k
MilestoneDefault == 0
\* aliases that name no goal / no task of any plan within the bounds
\* "the exact goalId of goal i" the Task-Breakdown prompt shows the worker
GivenGoalRef(i) == 50 + i
UnknownGoalRef == GoalAlias(MaxGoals + 5)
UnknownTaskRef == TaskAlias(MaxTasks + 5)

\* Map.get(k) || k
GetOr(map, k) == IF k \in DOMAIN map THEN map[k] ELSE k

\* Map.set(k, v) on an existing map
MapSet(map, k, v) == [x \in (DOMAIN map) \cup {k} |-> IF x = k THEN v ELSE map[x]]

EmptyMap == [x \in {} |-> 0]

\* ------------------------------------------------------- checkpoint + gate
createPassingCheckpoint(phase, warnings) ==
  [phase |-> phase, isValid |-> TRUE, criticalIssues |-> <<>>,
   warnings |-> warnings, canContinue |-> TRUE]

createFailingCheckpoint(phase, issues) ==
  [phase |-> phase, isValid |-> FALSE, criticalIssues |-> issues,
   warnings |-> <<>>, canContinue |-> FALSE]

\* TRUE when assertCheckpoint(checkpoint) throws.
assertCheckpointRaises(checkpoint) == ~checkpoint.isValid \/ ~checkpoint.canContinue

\* The thrown message: the phase name and the joined critical issues.
assertCheckpointMessage(checkpoint) ==
  [kind |-> "checkpoint", phase |-> checkpoint.phase, issues |-> checkpoint.criticalIssues]

\* ------------------------------------------------- reconciliation, pass 1
RECURSIVE IdsUsed(_, _)
\* createId() calls made while visiting goals 1..n (a goal, then its milestones)
IdsUsed(goals, n) ==
  IF n = 0 THEN 0 ELSE IdsUsed(goals, n - 1) + 1 + Len(goals[n].milestones)

\* A milestone that keeps the id the worker gave it.
NewMilestoneIdKept(goals, i, j, base) == goals[i].milestones[j].id

NewGoalId(goals, i, base) == CreateId(base + IdsUsed(goals, i - 1) + 1)
NewMilestoneId(goals, i, j, base) == CreateId(base + IdsUsed(goals, i - 1) + 1 + j)

RECURSIVE GoalIdMapAliasOnly(_, _, _)
\* goalIdMap with each goal registered under its positional alias only
GoalIdMapAliasOnly(goals, n, base) ==
  IF n = 0 THEN EmptyMap
  ELSE MapSet(GoalIdMapAliasOnly(goals, n - 1, base),
              GoalAlias(n), NewGoalId(goals, n, base))

RECURSIVE GoalIdMapUpTo(_, _, _)
\* goalIdMap after goals 1..n: set(oldGoalId, new); set(`goal_${i}`, new)
GoalIdMapUpTo(goals, n, base) ==
  IF n = 0 THEN EmptyMap
  ELSE MapSet(MapSet(GoalIdMapUpTo(goals, n - 1, base),
                     goals[n].id, NewGoalId(goals, n, base)),
              GoalAlias(n), NewGoalId(goals, n, base))

\* The keys milestone j of goal i is registered under, in the order of the
\* set() calls; a key is a tuple: <<k>> a plain key, <<g, m>> `${g}:${m}`,
\* <<g, -j>> `${g}:${j}` (the bare index j, which is no alias).
MilestoneKeys(goals, i, j) ==
  LET old == goals[i].milestones[j].id
      gk == <<goals[i].id, GoalAlias(i)>>
      mk == <<old, MilestoneAlias(j), MilestoneAliasPadded(j), MilestoneAliasPadded(j)>>
  IN {<<old>>}
       \cup {<<gk[a], mk[b]>> : a \in 1..2, b \in 1..4}
       \cup {<<gk[a], -j>> : a \in 1..2}

SimpleKeys(j) == {<<MilestoneAlias(j)>>, <<MilestoneAliasPadded(j)>>}

RECURSIVE MilestoneIdMapUpTo(_, _, _, _)
\* milestoneIdMap after goals 1..i-1 and milestones 1..j of goal i
MilestoneIdMapUpTo(goals, i, j, base) ==
  IF i = 0 THEN EmptyMap
  ELSE IF j = 0 THEN
    MilestoneIdMapUpTo(goals, i - 1,
                       IF i = 1 THEN 0 ELSE Len(goals[i - 1].milestones), base)
  ELSE
    LET prev == MilestoneIdMapUpTo(goals, i, j - 1, base)
        new == NewMilestoneId(goals, i, j, base)
        scoped == MilestoneKeys(goals, i, j)
        afterScoped == [k \in (DOMAIN prev) \cup scoped |->
                          IF k \in scoped THEN new ELSE prev[k]]
        simple == SimpleKeys(j)
    IN [k \in (DOMAIN afterScoped) \cup simple |->
          IF k \in DOMAIN afterScoped THEN afterScoped[k] ELSE new]

NormalizedGoals(goals, base) ==
  [i \in 1..Len(goals) |->
     [id |-> NewGoalId(goals, i, base),
      milestones |-> [j \in 1..Len(goals[i].milestones) |->
                        [id |-> NewMilestoneId(goals, i, j, base)]]]]

normalizeGoalPlanIds(goalPlan, base) ==
  LET goals == goalPlan.goals
      goalIdMap == GoalIdMapUpTo(goals, Len(goals), base)
  IN [normalizedPlan |->
        [goals |-> NormalizedGoals(goals, base),
         priorityRanking |-> [k \in 1..Len(goalPlan.priorityRanking) |->
                                GetOr(goalIdMap, goalPlan.priorityRanking[k])]],
      goalIdMap |-> goalIdMap,
      milestoneIdMap |->
        MilestoneIdMapUpTo(goals, Len(goals),
                           IF Len(goals) = 0 THEN 0
                           ELSE Len(goals[Len(goals)].milestones), base),
      idsUsed |-> IdsUsed(goals, Len(goals))]

\* ------------------------------------------------- reconciliation, pass 2
RECURSIVE TaskIdMapUpTo(_, _, _)
\* taskIdMap after tasks 1..n: set(task.id, new); set(`task_${k}`, new)
TaskIdMapUpTo(tasks, n, base) ==
  IF n = 0 THEN EmptyMap
  ELSE MapSet(MapSet(TaskIdMapUpTo(tasks, n - 1, base), tasks[n].id, CreateId(base + n)),
              TaskAlias(n), CreateId(base + n))

\* Array.from(map.values())[0] of a map with one key
OnlyValue(map) == map[CHOOSE k \in DOMAIN map : TRUE]

\* ResolveGoalId with the id maps kept in a module-level cache across calls
ResolveGoalIdMemoised(task, goalPlan, goalIdMap) ==
  LET fresh == IF task.goalId \in DOMAIN goalIdMap THEN goalIdMap[task.goalId]
               ELSE IF Cardinality(DOMAIN goalIdMap) = 1 THEN OnlyValue(goalIdMap)
               ELSE IF Len(goalPlan.goals) > 0 THEN goalPlan.goals[1].id
               ELSE task.goalId
      pos == {i \in 1..Len(goalPlan.goals) : goalPlan.goals[i].id = fresh}
  IN IF reconRun = 2 /\ pos # {} /\ Len(firstGoalPlan.goals) = Len(goalPlan.goals)
     THEN firstGoalPlan.goals[CHOOSE i \in pos : TRUE].id
     ELSE fresh

\* goalIdMap.get(task.goalId), else the only goal, else the first goal
ResolveGoalId(task, goalPlan, goalIdMap) ==
  IF task.goalId \in DOMAIN goalIdMap THEN goalIdMap[task.goalId]
  ELSE IF Cardinality(DOMAIN goalIdMap) = 1 THEN OnlyValue(goalIdMap)
  ELSE IF Len(goalPlan.goals) > 0 THEN goalPlan.goals[1].id
  ELSE task.goalId

\* goalPlan.goals.find(g => g.id === resolvedGoalId): its position, 0 if none
FindGoal(goalPlan, resolvedGoalId) ==
  LET hits == {i \in 1..Len(goalPlan.goals) : goalPlan.goals[i].id = resolvedGoalId}
  IN IF hits = {} THEN 0 ELSE CHOOSE i \in hits : \A h \in hits : i <= h

\* task.milestoneIndex || 1
MilestoneIndexOf(task) == IF task.milestoneIndex = 0 THEN 1 ELSE task.milestoneIndex

ResolveMilestoneIdUnscoped(goalPlan, resolvedGoalId, milestoneIndex) ==
  LET all == {<<i, j>> \in (1..Len(goalPlan.goals)) \X (1..MaxMilestones + 1) :
                j = milestoneIndex /\ j <= Len(goalPlan.goals[i].milestones)}
  IN IF all = {} THEN MilestoneDefault
     ELSE LET p == CHOOSE q \in all : \A r \in all : q[1] >= r[1]
          IN goalPlan.goals[p[1]].milestones[p[2]].id

\* The milestone list read at milestoneIndex, without the shift to 0-based.
ResolveMilestoneIdOffByOne(goalPlan, resolvedGoalId, milestoneIndex) ==
  LET g == FindGoal(goalPlan, resolvedGoalId)
  IN IF g = 0 THEN MilestoneDefault
     ELSE LET ms == goalPlan.goals[g].milestones
          IN IF milestoneIndex + 1 \in 1..Len(ms) THEN ms[milestoneIndex + 1].id
             ELSE IF Len(ms) > 0 THEN ms[1].id
             ELSE MilestoneDefault

\* milestone?.id || goal?.milestones?.[0]?.id || 'milestone_default'
ResolveMilestoneId(goalPlan, resolvedGoalId, milestoneIndex) ==
  LET g == FindGoal(goalPlan, resolvedGoalId)
  IN IF g = 0 THEN MilestoneDefault
     ELSE LET ms == goalPlan.goals[g].milestones
          IN IF milestoneIndex \in 1..Len(ms) THEN ms[milestoneIndex].id
             ELSE IF Len(ms) > 0 THEN ms[1].id
             ELSE MilestoneDefault

\* The list with the entries the map does not know left out.
RemapListKnownOnly(list, map) ==
  LET Known(x) == x \in DOMAIN map
      kept == SelectSeq(list, Known)
  IN [k \in 1..Len(kept) |-> map[kept[k]]]

RemapList(list, map) == [k \in 1..Len(list) |-> GetOr(map, list[k])]

RECURSIVE RemapGraphUpTo(_, _, _)
\* normalizedDependencyGraph after the first n entries of Object.entries(graph)
RemapGraphUpTo(graph, n, taskIdMap) ==
  IF n = 0 THEN EmptyMap
  ELSE MapSet(RemapGraphUpTo(graph, n - 1, taskIdMap),
              GetOr(taskIdMap, graph[n][1]), RemapList(graph[n][2], taskIdMap))

normalizeTaskBreakdownIds(breakdown, goalPlan, goalIdMap, base) ==
  LET tasks == breakdown.tasks
      taskIdMap == TaskIdMapUpTo(tasks, Len(tasks), base)
  IN [tasks |-> [k \in 1..Len(tasks) |->
        LET resolvedGoalId == ResolveGoalId(tasks[k], goalPlan, goalIdMap)
        IN [id |-> CreateId(base + k),
            goalId |-> resolvedGoalId,
            milestoneId |-> ResolveMilestoneId(goalPlan, resolvedGoalId,
                                               MilestoneIndexOf(tasks[k])),
            milestoneIndex |-> MilestoneIndexOf(tasks[k]),
            dependencies |-> RemapList(tasks[k].dependencies, taskIdMap),
            estimatedMinutes |-> tasks[k].estimatedMinutes]],
      dependencyGraph |->
        RemapGraphUpTo(breakdown.dependencyGraph, Len(breakdown.dependencyGraph), taskIdMap),
      criticalPath |-> RemapList(breakdown.criticalPath, taskIdMap),
      totalEffortMinutes |-> breakdown.totalEffortMinutes]

\* The breakdown of a worker that copies goal ids from its prompt: the prompt
\* lists, for every goal of the plan it is given, goal.id as the goalId to use.
WithGivenGoalIds(breakdown, goalPlan) ==
  [breakdown EXCEPT !.tasks =
     [k \in 1..Len(breakdown.tasks) |->
        [breakdown.tasks[k] EXCEPT !.goalId =
           IF \E i \in 1..Len(goalPlan.goals) : @ = GivenGoalRef(i)
           THEN goalPlan.goals[@ - GivenGoalRef(0)].id
           ELSE @]]]

\* ------------------------------------------------------- raw worker outputs
EmptyGoalPlan == [goals |-> <<>>, priorityRanking |-> <<>>]
EmptyBreakdown ==
  [tasks |-> <<>>, dependencyGraph |-> <<>>, criticalPath |-> <<>>, totalEffortMinutes |-> 0]

Reverse(seq) == [k \in 1..Len(seq) |-> seq[Len(seq) + 1 - k]]

\* How a worker may name the n goals of its plan.
GoalIdSchemes(n) ==
  { [i \in 1..n |-> GoalAlias(i)],          \* goal_1, goal_2, ...
    [i \in 1..n |-> i],                     \* its own distinct ids
    [i \in 1..n |-> 1],                     \* the same id for every goal
    [i \in 1..n |-> GoalAlias(n + 1 - i)] } \* positional names, in reverse

\* The first goal has a milestones, every later goal b.
MilestoneCountSchemes(n) ==
  { [i \in 1..n |-> IF i = 1 THEN a ELSE b] : a \in 0..MaxMilestones, b \in 0..MaxMilestones }

\* Every goal numbers its milestones from 1: milestone_1, milestone_2, ...
RawGoalPlans ==
  { [goals |-> [i \in 1..n |->
                  [id |-> ids[i],
                   milestones |-> [j \in 1..counts[i] |-> [id |-> MilestoneAlias(j)]]]],
     priorityRanking |-> Reverse(ids) \o <<UnknownGoalRef>>] :
      <<n, ids, counts>> \in
        UNION { {n} \X GoalIdSchemes(n) \X MilestoneCountSchemes(n) : n \in 0..MaxGoals } }

TaskGoalRefs == {GoalAlias(1), 2, UnknownGoalRef}

TaskIdSchemes(n) == { [k \in 1..n |-> TaskAlias(k)], [k \in 1..n |-> k + 2] }

\* The goal task k names: the same for every task, or the first task one
\* goal and the later tasks another.
TaskGoalRefSchemes(n) ==
  { [k \in 1..n |-> r] : r \in TaskGoalRefs }
    \cup { [k \in 1..n |-> IF k = 1 THEN a ELSE b] : a \in TaskGoalRefs, b \in TaskGoalRefs }

\* milestoneIndex of task k: 1 for all; k; 1, 1, 2, ...; unset (0) or past
\* every list
MilestoneIndexSchemes(n) ==
  { [k \in 1..n |-> 1], [k \in 1..n |-> k],
    [k \in 1..n |-> IF k = 1 THEN 1 ELSE k - 1],
    [k \in 1..n |-> IF k = 1 THEN 0 ELSE MaxMilestones + 1] }

\* task k > 1 depends on task 1 (by the worker's id), on task_1 and on a
\* task that does not exist; or nothing depends on anything.
DependencySchemes(ids) ==
  { [k \in 1..Len(ids) |-> <<>>],
    [k \in 1..Len(ids) |-> IF k = 1 THEN <<UnknownTaskRef>> ELSE <<ids[1], TaskAlias(1)>>] }

\* The keys of the worker's dependency graph, entry by entry (Object.entries
\* order): every task under its own id; or, when the worker names tasks by
\* ids of its own and lists dependencies, the last entry under the positional
\* name task_1, so that two keys name the first task.
GraphKeySchemes(ids, deps) ==
  {ids} \cup (IF Len(ids) >= 2 /\ ids[1] # TaskAlias(1) /\ deps[1] # <<>>
              THEN {[k \in 1..Len(ids) |-> IF k = Len(ids) THEN TaskAlias(1) ELSE ids[k]]}
              ELSE {})

RawBreakdowns ==
  { [tasks |-> [k \in 1..n |->
                  [id |-> ids[k], goalId |-> refs[k], milestoneIndex |-> idx[k],
                   dependencies |-> dk[1][k], estimatedMinutes |-> 30]],
     dependencyGraph |-> [k \in 1..n |-> <<dk[2][k], dk[1][k]>>],
     criticalPath |-> ids,
     totalEffortMinutes |-> 30 * n] :
      <<n, ids, refs, idx, dk>> \in
        UNION { UNION { {n} \X {ids} \X TaskGoalRefSchemes(n) \X MilestoneIndexSchemes(n)
                          \X UNION { { <<deps, keys>> :
                                        keys \in GraphKeySchemes(ids, deps) } :
                                      deps \in DependencySchemes(ids) } :
                        ids \in TaskIdSchemes(n) } :
                n \in 0..MaxTasks } }

\* ------------------------------------------------------------------ stages
StageNames == {"IntentParser", "UserContext", "GoalPlanner", "TaskBreaker",
               "Scheduler", "Prioritizer", "TimeOptimizer", "QAReview"}

PhaseNames == <<"foundation", "planning_goals", "planning_tasks", "scheduling", "quality">>

\* The stages executePhase(ctx, phase, fn) starts, in the order fn lists them.
PhaseStages(phase) ==
  CASE phase = "foundation" -> <<"IntentParser", "UserContext">>
    [] phase = "planning_goals" -> <<"GoalPlanner">>
    [] phase = "planning_tasks" -> <<"TaskBreaker">>
    [] phase = "scheduling" -> <<"Scheduler", "Prioritizer">>
    [] phase = "quality" -> <<"TimeOptimizer", "QAReview">>

\* Every phase joined with Promise.all.
FailFastEverywhere(phase) == TRUE

\* fn joins its stages with Promise.all (or is a single stage): the first
\* rejection rejects fn at once.  Scheduling and quality use Promise.allSettled.
FailFastPhase(phase) == phase \in {"foundation", "planning_goals", "planning_tasks"}

CheckpointPhase(s) ==
  CASE s = "IntentParser" -> "intent_parser"
    [] s = "UserContext" -> "user_context"
    [] s = "GoalPlanner" -> "goal_planner"
    [] s = "TaskBreaker" -> "task_breaker"
    [] s = "Scheduler" -> "scheduler"
    [] s = "Prioritizer" -> "prioritizer"
    [] s = "TimeOptimizer" -> "time_optimizer"
    [] s = "QAReview" -> "qa_review"

NoCheckpoint == [phase |-> "none", isValid |-> FALSE, criticalIssues |-> <<>>,
                 warnings |-> <<>>, canContinue |-> FALSE]
NoError == [kind |-> "none", stage |-> "none", issues |-> <<>>]

\* What a worker hands back: nothing (null), an empty object, a structurally
\* valid but degenerate object, a complete object; the planning workers'
\* objects carry the plan ("data").
Payload(kind, data) == [kind |-> kind, data |-> data]
NullPayload == Payload("null", 0)

\* The stages whose processOutput reads a field of a missing object.
\* (user-context: output.existingGoals.length; time-optimizer:
\* output.optimizedSchedule.days)
DereferencesMissingField(s) == s \in {"UserContext", "TimeOptimizer"}

\* Plans the Goal-Planning worker may return in a run.
WorkerGoalPlans ==
  { gp \in RawGoalPlans :
      \/ Len(gp.goals) = 0
      \/ /\ Len(gp.goals) \in {1, MaxGoals}
         /\ \A i \in 1..Len(gp.goals) :
              /\ gp.goals[i].id = GoalAlias(i)
              /\ Len(gp.goals[i].milestones) = Len(gp.goals[1].milestones)
         /\ Len(gp.goals[1].milestones) \in {1, MaxMilestones}
         /\ Len(gp.goals) = 1 \/ Len(gp.goals[1].milestones) = MaxMilestones }

\* Breakdowns the Task-Breakdown worker may return in a run; a breakdown
\* with a task of 0 estimated minutes has an invalid effort.  The worker
\* states the total effort itself: the sum of its tasks' minutes, or not.
WorkerBreakdowns ==
  { EmptyBreakdown }
    \cup { [tasks |-> [k \in 1..MaxTasks |->
                        [id |-> TaskAlias(k), goalId |-> ref, milestoneIndex |-> k,
                         dependencies |-> IF k = 1 THEN <<>> ELSE <<TaskAlias(1)>>,
                         estimatedMinutes |-> m]],
            dependencyGraph |-> [k \in 1..MaxTasks |->
                                   <<TaskAlias(k), IF k = 1 THEN <<>> ELSE <<TaskAlias(1)>>>>],
            criticalPath |-> [k \in 1..MaxTasks |-> TaskAlias(k)],
            totalEffortMinutes |-> m * (MaxTasks + extra)] :
           ref \in {GoalAlias(MaxGoals)}, m \in {0, 30}, extra \in {0, 1} }

\* The payloads a stage's worker may hand back in a run.  The Prioritizer and
\* the QA review treat an empty object as the Scheduler does.
WorkerPayloads(s) ==
  CASE s = "GoalPlanner" -> {NullPayload} \cup {Payload("data", gp) : gp \in WorkerGoalPlans}
    [] s = "TaskBreaker" -> {NullPayload} \cup {Payload("data", b) : b \in WorkerBreakdowns}
    [] s \in {"Prioritizer", "QAReview"} -> {NullPayload, Payload("full", 0)}
    [] OTHER -> {NullPayload, Payload("empty", 0), Payload("full", 0)}
                  \cup (IF DereferencesMissingField(s) THEN {Payload("partial", 0)} ELSE {})

\* agent.processOutput(result) of each stage: [raises, result, checkpoint]
Processed(res, cp) == [raises |-> FALSE, result |-> res, checkpoint |-> cp]
ProcessRaises == [raises |-> TRUE, result |-> 0, checkpoint |-> NoCheckpoint]

GoalPlannerProcessOutput(output) ==
  LET goals == output.goals
      hasGoals == Len(goals) > 0
      allHaveMilestones == \A i \in 1..Len(goals) : Len(goals[i].milestones) >= 2
      issues == (IF hasGoals THEN <<>> ELSE <<"Nessun goal definito">>)
                  \o (IF allHaveMilestones THEN <<>>
                      ELSE <<"Alcuni goal non hanno milestone sufficienti">>)
                  \o <<"Alcuni goal non hanno metriche di successo">>
  IN Processed(output,
               IF hasGoals /\ allHaveMilestones
               THEN createPassingCheckpoint("goal_planner", issues)
               ELSE createFailingCheckpoint("goal_planner", issues))

TaskBreakerProcessOutput(output) ==
  LET tasks == output.tasks
      hasTasks == Len(tasks) > 0
      hasValidEfforts == \A k \in 1..Len(tasks) :
                           tasks[k].estimatedMinutes >= 5 /\ tasks[k].estimatedMinutes <= 480
      issues == (IF hasTasks THEN <<>> ELSE <<"Nessun task generato">>)
                  \o (IF hasValidEfforts THEN <<>>
                      ELSE <<"Alcuni task hanno stime di effort non valide">>)
                  \o (IF Len(output.criticalPath) > 0 THEN <<>>
                      ELSE <<"Critical path non calcolato">>)
  IN Processed(output,
               IF hasTasks /\ hasValidEfforts
               THEN createPassingCheckpoint("task_breaker", issues)
               ELSE createFailingCheckpoint("task_breaker", issues))

SimpleProcessOutput(s, payload) ==
  IF payload.kind = "empty" /\ DereferencesMissingField(s) THEN ProcessRaises
  ELSE IF payload.kind = "full"
  THEN Processed([by |-> s, kind |-> payload.kind],
                 createPassingCheckpoint(CheckpointPhase(s), <<>>))
  ELSE Processed([by |-> s, kind |-> payload.kind],
                 createFailingCheckpoint(CheckpointPhase(s), <<"output incompleto">>))

processOutput(s, payload) ==
  CASE s = "GoalPlanner" -> GoalPlannerProcessOutput(payload.data)
    [] s = "TaskBreaker" -> TaskBreakerProcessOutput(payload.data)
    [] OTHER -> SimpleProcessOutput(s, payload)

IdleStage == [status |-> "idle", transport |-> FALSE, payload |-> "none",
              error |-> NoError, result |-> 0, checkpoint |-> NoCheckpoint]
RunningStage == [IdleStage EXCEPT !.status = "running"]

Rejected(s, transport, payload, kind) ==
  [status |-> "rejected", transport |-> transport, payload |-> payload.kind,
   error |-> [kind |-> kind, stage |-> s, issues |-> <<>>],
   result |-> 0, checkpoint |-> NoCheckpoint]

\* run<Stage>(): runAgent throws on a transport failure; the runner throws
\* '<Stage> failed to produce result' on a null result; else processOutput.
RunStage(s, transport, payload) ==
  IF transport THEN Rejected(s, TRUE, payload, "transport")
  ELSE IF payload.kind = "null" THEN Rejected(s, FALSE, payload, "no_result")
  ELSE LET out == processOutput(s, payload)
       IN IF out.raises THEN Rejected(s, FALSE, payload, "type_error")
          ELSE [status |-> "fulfilled", transport |-> FALSE, payload |-> payload.kind,
                error |-> NoError, result |-> out.result, checkpoint |-> out.checkpoint]

\* ------------------------------------------------------- resilience store
\* The user whose calls are followed, and another user of the same store.
Users == {"u1"}
OtherUser == "u2"

Range(seq) == {seq[k] : k \in 1..Len(seq)}

\* What the store held when the call began.
NoCallStart == [latest |-> 0, persisted |-> {}, store |-> <<>>]
NoInput == [userId |-> "none", resumeFromStateId |-> 0, rawUserInput |-> 0]

\* A run record; a run with no terminal marker is recoverable.
NewRun(userId) ==
  [userId |-> userId, terminal |-> FALSE, phaseResults |-> EmptyMap, input |-> NoInput]

RecoverableIds(store, userId) ==
  {i \in 1..Len(store) : store[i].userId = userId /\ ~store[i].terminal}

\* getRecoverableStates(userId, 'oneagenda')[0]: the latest recoverable run's
\* id, 0 when there is none
LatestRecoverable(store, userId) ==
  LET ids == RecoverableIds(store, userId)
  IN IF ids = {} THEN 0 ELSE CHOOSE i \in ids : \A h \in ids : h <= i

\* The run an orchestrate call asks for with no resumeFromStateId at all.
TargetStateIdExplicitOnly(store, userId, resumeFromStateId) == resumeFromStateId

\* The latest unfinished run of the store, whoever its user is.
TargetStateIdOfAnyUser(store, userId, resumeFromStateId) ==
  LET ids == {i \in 1..Len(store) : ~store[i].terminal}
  IN IF resumeFromStateId # 0 THEN resumeFromStateId
     ELSE IF ids = {} THEN 0 ELSE CHOOSE i \in ids : \A h \in ids : h <= i

\* targetStateId: input.resumeFromStateId, else the latest recoverable run
TargetStateId(store, userId, resumeFromStateId) ==
  IF resumeFromStateId # 0 THEN resumeFromStateId ELSE LatestRecoverable(store, userId)

\* createContext(userId, 'oneagenda', resumeRunId?): the store and the run id
createContext(store, userId, resumeRunId) ==
  IF resumeRunId # 0 THEN [store |-> store, runId |-> resumeRunId]
  ELSE [store |-> Append(store, NewRun(userId)), runId |-> Len(store) + 1]

\* executePhase(ctx, phaseName, fn): fn is skipped when phaseName has a
\* persisted result; else its result is persisted before it is returned.
HasPersisted(store, id, phaseName) == phaseName \in DOMAIN store[id].phaseResults
Persist(store, id, phaseName, val) ==
  [store EXCEPT ![id].phaseResults = MapSet(@, phaseName, val)]

\* complete(ctx): the run is marked terminal and its results are archived.
complete(store, id) == [store EXCEPT ![id].terminal = TRUE, ![id].phaseResults = EmptyMap]

\* ----------------------------------------------------------- orchestrate()
NoValue == [by |-> "none", kind |-> "none"]
EmptyContext ==
  [intent |-> NoValue, userContext |-> NoValue, goalPlan |-> EmptyGoalPlan,
   taskBreakdown |-> EmptyBreakdown, schedule |-> NoValue, prioritization |-> NoValue,
   optimizedSchedule |-> NoValue, qaReport |-> NoValue]

NoPlan == [id |-> 0, userId |-> "none", goals |-> <<>>, tasks |-> <<>>, schedule |-> NoValue,
           prioritization |-> NoValue, qaReport |-> NoValue,
           metadata |-> [totalGoals |-> 0, totalTasks |-> 0, totalEffortMinutes |-> 0]]
NoResult == [success |-> FALSE, plan |-> NoPlan, context |-> EmptyContext, contextSet |-> {},
             checkpoints |-> <<>>, errors |-> <<>>]

\* createId() calls one call can make; each call draws from a block of its own.
IdsPerCall == MaxGoals * (1 + MaxMilestones) + MaxTasks + 1

\* The final plan always taking the Scheduler's schedule.
buildFinalPlanRawSchedule(ctx, fields, userId, base) ==
  [id |-> CreateId(base + 1),
   userId |-> userId,
   goals |-> ctx.goalPlan.goals,
   tasks |-> ctx.taskBreakdown.tasks,
   schedule |-> ctx.schedule,
   prioritization |-> ctx.prioritization,
   qaReport |-> ctx.qaReport,
   metadata |-> [totalGoals |-> Len(ctx.goalPlan.goals),
                 totalTasks |-> Len(ctx.taskBreakdown.tasks),
                 totalEffortMinutes |-> ctx.taskBreakdown.totalEffortMinutes]]

buildFinalPlan(ctx, fields, userId, base) ==
  [id |-> CreateId(base + 1),
   userId |-> userId,
   goals |-> ctx.goalPlan.goals,
   tasks |-> ctx.taskBreakdown.tasks,
   schedule |-> IF "optimizedSchedule" \in fields THEN ctx.optimizedSchedule ELSE ctx.schedule,
   prioritization |-> ctx.prioritization,
   qaReport |-> ctx.qaReport,
   metadata |-> [totalGoals |-> Len(ctx.goalPlan.goals),
                 totalTasks |-> Len(ctx.taskBreakdown.tasks),
                 totalEffortMinutes |-> ctx.taskBreakdown.totalEffortMinutes]]

\* The ids of the goals and milestones of a goal plan, of the tasks of a
\* breakdown.
GoalPlanIds(goalPlan) ==
  {goalPlan.goals[i].id : i \in 1..Len(goalPlan.goals)}
    \cup UNION { {goalPlan.goals[i].milestones[j].id :
                    j \in 1..Len(goalPlan.goals[i].milestones)} :
                 i \in 1..Len(goalPlan.goals) }

TaskIds(breakdown) == {breakdown.tasks[k].id : k \in 1..Len(breakdown.tasks)}

\* The entity ids in the arguments of the stages of a phase:
\* runTaskBreaker(goalPlan); runScheduler(taskBreakdown, userContext) and
\* runPrioritizer(taskBreakdown); runQAReview(schedule, goalPlan).
ArgumentIds(phase, ctx) ==
  CASE phase = "planning_tasks" -> GoalPlanIds(ctx.goalPlan)
    [] phase = "scheduling" -> TaskIds(ctx.taskBreakdown)
    [] phase = "quality" -> GoalPlanIds(ctx.goalPlan)
    [] OTHER -> {}

\* The locals of the running call, as one record.
Cur ==
  [pc |-> pc, checkpoints |-> checkpoints, context |-> context, contextSet |-> contextSet,
   goalIdMap |-> localGoalIdMap, nextId |-> nextId, result |-> result, complete |-> FALSE]

\* A catch block that also marks the run complete.
FailedAndCompleted(c, err) ==
  [c EXCEPT !.pc = "returned",
            !.complete = TRUE,
            !.result = [success |-> FALSE, plan |-> NoPlan, context |-> c.context,
                        contextSet |-> c.contextSet, checkpoints |-> c.checkpoints,
                        errors |-> <<err>>]]

\* A catch block that hands back an empty context.
FailedWithoutContext(c, err) ==
  [c EXCEPT !.pc = "returned",
            !.result = [success |-> FALSE, plan |-> NoPlan, context |-> EmptyContext,
                        contextSet |-> {}, checkpoints |-> c.checkpoints,
                        errors |-> <<err>>]]

\* The catch block: the failed result, with what the call holds at the throw.
Failed(c, err) ==
  [c EXCEPT !.pc = "returned",
            !.result = [success |-> FALSE, plan |-> NoPlan, context |-> c.context,
                        contextSet |-> c.contextSet, checkpoints |-> c.checkpoints,
                        errors |-> <<err>>]]

\* Goal planning with its gate left out.
AfterGoalsUngated(c, val) ==
  LET n == normalizeGoalPlanIds(val["GoalPlanner"].result, c.nextId)
  IN [c EXCEPT !.checkpoints = @ \o <<val["GoalPlanner"].checkpoint>>,
               !.context.goalPlan = n.normalizedPlan,
               !.contextSet = @ \cup {"goalPlan"},
               !.goalIdMap = n.goalIdMap,
               !.nextId = @ + n.idsUsed,
               !.pc = "planning_tasks"]

\* Foundation with the User-Context checkpoint gated as well.
AfterFoundationBothGated(c, val) ==
  LET c1 == [c EXCEPT !.context.intent = val["IntentParser"].result,
                      !.context.userContext = val["UserContext"].result,
                      !.contextSet = @ \cup {"intent", "userContext"},
                      !.checkpoints = @ \o <<val["IntentParser"].checkpoint,
                                             val["UserContext"].checkpoint>>]
  IN IF assertCheckpointRaises(val["IntentParser"].checkpoint)
     THEN Failed(c1, assertCheckpointMessage(val["IntentParser"].checkpoint))
     ELSE IF assertCheckpointRaises(val["UserContext"].checkpoint)
     THEN Failed(c1, assertCheckpointMessage(val["UserContext"].checkpoint))
     ELSE [c1 EXCEPT !.pc = "planning_goals"]

\* The code after `await executePhase(.., 'foundation', ..)` up to the next await.
AfterFoundation(c, val) ==
  LET c1 == [c EXCEPT !.context.intent = val["IntentParser"].result,
                      !.context.userContext = val["UserContext"].result,
                      !.contextSet = @ \cup {"intent", "userContext"},
                      !.checkpoints = @ \o <<val["IntentParser"].checkpoint,
                                             val["UserContext"].checkpoint>>]
  IN IF assertCheckpointRaises(val["IntentParser"].checkpoint)
     THEN Failed(c1, assertCheckpointMessage(val["IntentParser"].checkpoint))
     ELSE [c1 EXCEPT !.pc = "planning_goals"]

AfterGoals(c, val) ==
  LET c1 == [c EXCEPT !.checkpoints = @ \o <<val["GoalPlanner"].checkpoint>>]
      n == normalizeGoalPlanIds(val["GoalPlanner"].result, c.nextId)
  IN IF assertCheckpointRaises(val["GoalPlanner"].checkpoint)
     THEN Failed(c1, assertCheckpointMessage(val["GoalPlanner"].checkpoint))
     ELSE [c1 EXCEPT !.context.goalPlan = n.normalizedPlan,
                     !.contextSet = @ \cup {"goalPlan"},
                     !.goalIdMap = n.goalIdMap,
                     !.nextId = @ + n.idsUsed,
                     !.pc = "planning_tasks"]

AfterTasks(c, val) ==
  LET c1 == [c EXCEPT !.checkpoints = @ \o <<val["TaskBreaker"].checkpoint>>]
  IN IF assertCheckpointRaises(val["TaskBreaker"].checkpoint)
     THEN Failed(c1, assertCheckpointMessage(val["TaskBreaker"].checkpoint))
     ELSE [c1 EXCEPT !.context.taskBreakdown =
                       normalizeTaskBreakdownIds(
                         WithGivenGoalIds(val["TaskBreaker"].result, c.context.goalPlan),
                         c.context.goalPlan, c.goalIdMap, c.nextId),
                     !.contextSet = @ \cup {"taskBreakdown"},
                     !.nextId = @ + Len(val["TaskBreaker"].result.tasks),
                     !.pc = "scheduling"]

\* Scheduling with only the schedule's checkpoint recorded.
AfterSchedulingOneCheckpoint(c, val) ==
  IF val["Scheduler"].status = "rejected" THEN Failed(c, val["Scheduler"].error)
  ELSE IF val["Prioritizer"].status = "rejected" THEN Failed(c, val["Prioritizer"].error)
  ELSE [c EXCEPT !.context.schedule = val["Scheduler"].result,
                 !.context.prioritization = val["Prioritizer"].result,
                 !.contextSet = @ \cup {"schedule", "prioritization"},
                 !.checkpoints = @ \o <<val["Scheduler"].checkpoint>>,
                 !.pc = "quality"]

AfterScheduling(c, val) ==
  IF val["Scheduler"].status = "rejected" THEN Failed(c, val["Scheduler"].error)
  ELSE IF val["Prioritizer"].status = "rejected" THEN Failed(c, val["Prioritizer"].error)
  ELSE [c EXCEPT !.context.schedule = val["Scheduler"].result,
                 !.context.prioritization = val["Prioritizer"].result,
                 !.contextSet = @ \cup {"schedule", "prioritization"},
                 !.checkpoints = @ \o <<val["Scheduler"].checkpoint,
                                        val["Prioritizer"].checkpoint>>,
                 !.pc = "quality"]

AfterQuality(c, val, userId) ==
  IF val["TimeOptimizer"].status = "rejected" THEN Failed(c, val["TimeOptimizer"].error)
  ELSE IF val["QAReview"].status = "rejected" THEN Failed(c, val["QAReview"].error)
  ELSE LET c1 == [c EXCEPT !.context.optimizedSchedule = val["TimeOptimizer"].result,
                           !.context.qaReport = val["QAReview"].result,
                           !.contextSet = @ \cup {"optimizedSchedule", "qaReport"},
                           !.checkpoints = @ \o <<val["TimeOptimizer"].checkpoint,
                                                  val["QAReview"].checkpoint>>]
       IN [c1 EXCEPT !.pc = "returned",
                     !.nextId = @ + 1,
                     !.complete = TRUE,
                     !.result = [success |-> TRUE,
                                 plan |-> buildFinalPlan(c1.context, c1.contextSet, userId,
                                                         c1.nextId),
                                 context |-> c1.context, contextSet |-> c1.contextSet,
                                 checkpoints |-> c1.checkpoints, errors |-> <<>>]]

After(phase, c, val, userId) ==
  CASE phase = "foundation" -> AfterFoundation(c, val)
    [] phase = "planning_goals" -> AfterGoals(c, val)
    [] phase = "planning_tasks" -> AfterTasks(c, val)
    [] phase = "scheduling" -> AfterScheduling(c, val)
    [] phase = "quality" -> AfterQuality(c, val, userId)

\* eventSender.sendEvent / sendProgress: the events are recorded from the
\* terminal event of the call on.
Send(sent, events) == IF sent = <<>> THEN <<>> ELSE sent \o events

Apply(c, store) ==
  /\ pc' = c.pc
  /\ step' = IF c.pc = "returned" THEN "none" ELSE "enter"
  /\ checkpoints' = c.checkpoints
  /\ context' = c.context
  /\ contextSet' = c.contextSet
  /\ localGoalIdMap' = c.goalIdMap
  /\ nextId' = c.nextId
  /\ result' = c.result
  /\ runs' = IF c.complete THEN complete(store, runId) ELSE store
  /\ doneRuns' = IF c.pc = "returned" /\ c.result.success
               THEN doneRuns \cup {runId} ELSE doneRuns
  /\ sentFromTerminal' =
       IF c.pc # "returned" THEN Send(sentFromTerminal, <<"progress">>)
       ELSE IF c.result.success THEN <<"orchestration_complete">>
       ELSE <<"orchestration_error">>

InPhase(p) == p \in Range(PhaseNames)

\* orchestrate(input): the run is chosen (resumeFromStateId, else the latest
\* recoverable run, else a new one) and the call stands before Foundation.
Orchestrate ==
  /\ pc \in {"idle", "returned"}
  /\ calls < MaxCalls
  /\ \E userId \in Users :
       \E resume \in {0} \cup RecoverableIds(runs, userId) :
         LET input == [userId |-> userId, resumeFromStateId |-> resume,
                       rawUserInput |-> calls + 1]
             latest == LatestRecoverable(runs, userId)
             targetStateId == TargetStateId(runs, userId, resume)
             rc == createContext(runs, userId, targetStateId)
         IN /\ callInput' = input
            /\ callStart' = [latest |-> latest,
                             persisted |-> IF latest = 0 THEN {}
                                           ELSE DOMAIN runs[latest].phaseResults,
                             store |-> [i \in 1..Len(runs) |->
                                          [userId |-> runs[i].userId,
                                           terminal |-> runs[i].terminal]]]
            /\ runs' = [rc.store EXCEPT ![rc.runId].input = input]
            /\ runId' = rc.runId
  /\ calls' = calls + 1
  /\ pc' = "foundation"
  /\ step' = "enter"
  /\ stage' = [s \in StageNames |-> IdleStage]
  /\ invoked' = <<>>
  /\ context' = EmptyContext
  /\ contextSet' = {}
  /\ checkpoints' = <<>>
  /\ localGoalIdMap' = EmptyMap
  /\ nextId' = calls * IdsPerCall
  /\ result' = NoResult
  /\ sentFromTerminal' = <<>>
  /\ UNCHANGED zombies
  /\ UNCHANGED <<varsRecon, varsGate, varsPlan, varsSave>>
  /\ UNCHANGED handedIds
  /\ aborted' = FALSE
  /\ UNCHANGED doneRuns

\* executePhase finds no persisted result and calls fn: the stages start.
StartPhase ==
  /\ InPhase(pc)
  /\ step = "enter"
  /\ ~HasPersisted(runs, runId, pc)
  /\ stage' = [s \in StageNames |->
                 IF s \in Range(PhaseStages(pc)) THEN RunningStage ELSE stage[s]]
  /\ invoked' = invoked \o PhaseStages(pc)
  /\ sentFromTerminal' =
       Send(sentFromTerminal, [k \in 1..Len(PhaseStages(pc)) |-> "agent_start"])
  /\ handedIds' = MapSet(handedIds, <<runId, pc>>, ArgumentIds(pc, context))
  /\ step' = "await"
  /\ UNCHANGED <<runs, pc, calls, callInput, runId, callStart, context, contextSet,
                 checkpoints, localGoalIdMap, nextId, result, zombies>>
  /\ UNCHANGED <<varsRecon, varsGate, varsPlan, varsSave>>
  /\ UNCHANGED aborted
  /\ UNCHANGED doneRuns

\* executePhase finds a persisted result and returns it; fn is not called.
ResumePhase ==
  /\ InPhase(pc)
  /\ step = "enter"
  /\ HasPersisted(runs, runId, pc)
  /\ Apply(After(pc, Cur, runs[runId].phaseResults[pc], callInput.userId), runs)
  /\ UNCHANGED <<calls, callInput, runId, callStart, stage, invoked, zombies>>
  /\ UNCHANGED <<varsRecon, varsGate, varsPlan, varsSave>>
  /\ UNCHANGED handedIds
  /\ UNCHANGED aborted

\* A stage's worker answers (or fails) and the stage settles.  In a fail-fast
\* phase the first rejection rejects fn at once, so nothing settles between
\* that rejection and the catch block.
Settle ==
  /\ InPhase(pc)
  /\ step = "await"
  /\ \E s \in Range(PhaseStages(pc)) :
       /\ stage[s].status = "running"
       /\ FailFastPhase(pc) =>
            \A t \in Range(PhaseStages(pc)) : stage[t].status # "rejected"
       /\ \E transport \in BOOLEAN :
            \E payload \in WorkerPayloads(s) :
              /\ transport => payload = NullPayload
              /\ stage' = [stage EXCEPT ![s] = RunStage(s, transport, payload)]
              /\ sentFromTerminal' =
                   Send(sentFromTerminal,
                        <<IF transport THEN "agent_error" ELSE "agent_complete">>)
  /\ UNCHANGED <<runs, pc, step, calls, callInput, runId, callStart, invoked, context,
                 contextSet, checkpoints, localGoalIdMap, nextId, result, zombies>>
  /\ UNCHANGED <<varsRecon, varsGate, varsPlan, varsSave>>
  /\ UNCHANGED handedIds
  /\ UNCHANGED aborted
  /\ UNCHANGED doneRuns

Settled(s) == stage[s].status \in {"fulfilled", "rejected"}

\* A join that resolves as soon as one stage has fulfilled.
JoinPhaseEarly ==
  /\ InPhase(pc)
  /\ step = "await"
  /\ \E s \in Range(PhaseStages(pc)) : stage[s].status = "fulfilled"
  /\ \A s \in Range(PhaseStages(pc)) : stage[s].status # "rejected"
  /\ LET val == [s \in Range(PhaseStages(pc)) |->
                  IF stage[s].status = "fulfilled" THEN stage[s]
                  ELSE RunStage(s, FALSE, Payload("full", 0))]
     IN Apply(After(pc, Cur, val, callInput.userId), Persist(runs, runId, pc, val))
  /\ UNCHANGED <<calls, callInput, runId, callStart, stage, invoked, zombies>>
  /\ UNCHANGED <<varsRecon, varsGate, varsPlan, varsSave>>
  /\ UNCHANGED handedIds
  /\ UNCHANGED aborted

\* fn resolves: Promise.all with every stage fulfilled, Promise.allSettled
\* with every stage settled.  executePhase persists the value and returns it.
JoinPhase ==
  /\ InPhase(pc)
  /\ step = "await"
  /\ \A s \in Range(PhaseStages(pc)) : Settled(s)
  /\ FailFastPhase(pc) => \A s \in Range(PhaseStages(pc)) : stage[s].status = "fulfilled"
  /\ LET val == [s \in Range(PhaseStages(pc)) |-> stage[s]]
     IN Apply(After(pc, Cur, val, callInput.userId), Persist(runs, runId, pc, val))
  /\ UNCHANGED <<calls, callInput, runId, callStart, stage, invoked, zombies>>
  /\ UNCHANGED <<varsRecon, varsGate, varsPlan, varsSave>>
  /\ UNCHANGED handedIds
  /\ UNCHANGED aborted

\* fn rejects in a fail-fast phase: executePhase rethrows, nothing is
\* persisted, the catch block returns; a sibling still in flight is left alone.
RejectPhase ==
  /\ InPhase(pc)
  /\ step = "await"
  /\ FailFastPhase(pc)
  /\ \E s \in Range(PhaseStages(pc)) :
       /\ stage[s].status = "rejected"
       /\ Apply(Failed(Cur, stage[s].error), runs)
  /\ zombies' = zombies \cup {s \in Range(PhaseStages(pc)) : stage[s].status = "running"}
  /\ UNCHANGED <<calls, callInput, runId, callStart, stage, invoked>>
  /\ UNCHANGED <<varsRecon, varsGate, varsPlan, varsSave>>
  /\ UNCHANGED handedIds
  /\ UNCHANGED aborted

\* A stage of a call that has returned settles on its own.
ZombieSettle ==
  /\ \E s \in zombies :
       /\ zombies' = zombies \ {s}
       /\ \E transport \in BOOLEAN :
            sentFromTerminal' =
              Send(sentFromTerminal,
                   <<IF transport THEN "agent_error" ELSE "agent_complete">>)
  /\ UNCHANGED <<runs, pc, step, calls, callInput, runId, callStart, stage, invoked,
                 context, contextSet, checkpoints, localGoalIdMap, nextId, result>>
  /\ UNCHANGED <<varsRecon, varsGate, varsPlan, varsSave>>
  /\ UNCHANGED handedIds
  /\ UNCHANGED aborted
  /\ UNCHANGED doneRuns

\* The caller raises the abort signal it handed to orchestrate.  The signal
\* is passed on to every worker call; orchestrate itself never reads it.
RaiseAbort ==
  /\ InPhase(pc)
  /\ ~aborted
  /\ aborted' = TRUE
  /\ UNCHANGED <<runs, pc, step, calls, callInput, runId, callStart, stage, invoked,
                 context, contextSet, checkpoints, localGoalIdMap, nextId, result, zombies,
                 sentFromTerminal>>
  /\ UNCHANGED <<varsRecon, varsGate, varsPlan, varsSave>>
  /\ UNCHANGED handedIds
  /\ UNCHANGED doneRuns

\* The process dies in the middle of a run; only the store survives.
Crash ==
  /\ InPhase(pc)
  /\ pc' = "idle"
  /\ step' = "none"
  /\ callInput' = NoInput
  /\ runId' = 0
  /\ callStart' = NoCallStart
  /\ stage' = [s \in StageNames |-> IdleStage]
  /\ invoked' = <<>>
  /\ context' = EmptyContext
  /\ contextSet' = {}
  /\ checkpoints' = <<>>
  /\ localGoalIdMap' = EmptyMap
  /\ result' = NoResult
  /\ zombies' = {}
  /\ sentFromTerminal' = <<>>
  /\ UNCHANGED <<runs, calls, nextId>>
  /\ UNCHANGED <<varsRecon, varsGate, varsPlan, varsSave>>
  /\ UNCHANGED handedIds
  /\ aborted' = FALSE
  /\ UNCHANGED doneRuns

InitOrch ==
  /\ runs \in {<<>>, <<NewRun(OtherUser)>>}
  /\ pc = "idle"
  /\ step = "none"
  /\ calls = 0
  /\ callInput = NoInput
  /\ runId = 0
  /\ callStart = NoCallStart
  /\ stage = [s \in StageNames |-> IdleStage]
  /\ invoked = <<>>
  /\ context = EmptyContext
  /\ contextSet = {}
  /\ checkpoints = <<>>
  /\ localGoalIdMap = EmptyMap
  /\ nextId = 0
  /\ result = NoResult
  /\ zombies = {}
  /\ sentFromTerminal = <<>>
  /\ handedIds = EmptyMap
  /\ aborted = FALSE
  /\ doneRuns = {}

IdleOrch == InitOrch /\ runs = <<>>

Next ==
  \/ Orchestrate
  \/ StartPhase
  \/ ResumePhase
  \/ Settle
  \/ JoinPhase
  \/ RejectPhase
  \/ ZombieSettle
  \/ RaiseAbort
  \/ Crash

\* --------------------------------------------------- assertCheckpoint alone
IssueLists == {<<>>, <<"issue">>}

InitGate ==
  /\ gateCheckpoint \in [phase : {CheckpointPhase(s) : s \in StageNames},
                         isValid : BOOLEAN, criticalIssues : IssueLists,
                         warnings : {<<>>}, canContinue : BOOLEAN]
  /\ gateOutcome = [state |-> "pending", error |-> NoError]

AssertCheckpoint ==
  /\ gateOutcome.state = "pending"
  /\ gateOutcome' =
       IF assertCheckpointRaises(gateCheckpoint)
       THEN [state |-> "raised", error |-> assertCheckpointMessage(gateCheckpoint)]
       ELSE [state |-> "passed", error |-> NoError]
  /\ UNCHANGED gateCheckpoint
  /\ UNCHANGED <<varsOrch, varsRecon, varsPlan, varsSave>>

IdleGate ==
  /\ gateCheckpoint = NoCheckpoint
  /\ gateOutcome = [state |-> "pending", error |-> NoError]

\* --------------------------------------------- the engine, run on raw output
InitRecon ==
  /\ rawGoalPlan \in RawGoalPlans
  /\ rawBreakdown \in RawBreakdowns
  /\ reconPc = "raw"
  /\ reconRun = 1
  /\ idCounter = 0
  /\ reconGoalPlan = EmptyGoalPlan
  /\ reconGoalIdMap = EmptyMap
  /\ reconMilestoneIdMap = EmptyMap
  /\ reconBreakdown = EmptyBreakdown
  /\ firstGoalPlan = EmptyGoalPlan
  /\ firstBreakdown = EmptyBreakdown

ReconPass1 ==
  /\ reconPc = "raw"
  /\ LET r == normalizeGoalPlanIds(rawGoalPlan, idCounter)
     IN /\ reconGoalPlan' = r.normalizedPlan
        /\ reconGoalIdMap' = r.goalIdMap
        /\ reconMilestoneIdMap' = r.milestoneIdMap
        /\ idCounter' = idCounter + r.idsUsed
  /\ reconPc' = "goals"
  /\ UNCHANGED <<rawGoalPlan, rawBreakdown, reconRun, reconBreakdown, firstGoalPlan,
                 firstBreakdown>>
  /\ UNCHANGED <<varsOrch, varsGate, varsPlan, varsSave>>

ReconPass2 ==
  /\ reconPc = "goals"
  /\ reconBreakdown' =
       normalizeTaskBreakdownIds(WithGivenGoalIds(rawBreakdown, reconGoalPlan),
                                 reconGoalPlan, reconGoalIdMap, idCounter)
  /\ idCounter' = idCounter + Len(rawBreakdown.tasks)
  /\ reconPc' = "tasks"
  /\ UNCHANGED <<rawGoalPlan, rawBreakdown, reconRun, reconGoalPlan, reconGoalIdMap,
                 reconMilestoneIdMap, firstGoalPlan, firstBreakdown>>
  /\ UNCHANGED <<varsOrch, varsGate, varsPlan, varsSave>>

\* The same raw output is reconciled a second time.
ReconAgain ==
  /\ reconPc = "tasks"
  /\ reconRun = 1
  /\ firstGoalPlan' = reconGoalPlan
  /\ firstBreakdown' = reconBreakdown
  /\ reconRun' = 2
  /\ reconPc' = "raw"
  /\ UNCHANGED <<rawGoalPlan, rawBreakdown, idCounter, reconGoalPlan, reconGoalIdMap,
                 reconMilestoneIdMap, reconBreakdown>>
  /\ UNCHANGED <<varsOrch, varsGate, varsPlan, varsSave>>

IdleRecon ==
  /\ rawGoalPlan = EmptyGoalPlan
  /\ rawBreakdown = EmptyBreakdown
  /\ reconPc = "off"
  /\ reconRun = 1
  /\ idCounter = 0
  /\ reconGoalPlan = EmptyGoalPlan
  /\ reconGoalIdMap = EmptyMap
  /\ reconMilestoneIdMap = EmptyMap
  /\ reconBreakdown = EmptyBreakdown
  /\ firstGoalPlan = EmptyGoalPlan
  /\ firstBreakdown = EmptyBreakdown

NextRecon ==
  \/ ReconPass1
  \/ ReconPass2
  \/ ReconAgain

\* ---------------------------------------------------------------------
\* buildFinalPlan applied to a context of the pipeline: the planning and
\* scheduling fields are written, the quality fields are written or not.
SettledResults(s) ==
  { SimpleProcessOutput(s, payload).result :
      payload \in { q \in {Payload(kind, 0) : kind \in {"empty", "partial", "full"}} :
                      ~SimpleProcessOutput(s, q).raises } }

PlanGoalPlans ==
  { normalizeGoalPlanIds(gp, 0) :
      gp \in { g \in WorkerGoalPlans :
                 ~assertCheckpointRaises(GoalPlannerProcessOutput(g).checkpoint) } }

PlanBreakdowns(n) ==
  { normalizeTaskBreakdownIds(b, n.normalizedPlan, n.goalIdMap, n.idsUsed) :
      b \in { w \in WorkerBreakdowns :
                 ~assertCheckpointRaises(TaskBreakerProcessOutput(w).checkpoint) } }

InitPlan ==
  /\ \E n \in PlanGoalPlans :
       \E b \in PlanBreakdowns(n) :
         \E sch \in SettledResults("Scheduler"), pri \in SettledResults("Prioritizer"),
            opt \in {NoValue} \cup SettledResults("TimeOptimizer"),
            qa \in {NoValue} \cup SettledResults("QAReview") :
           /\ planContext = [EmptyContext EXCEPT !.goalPlan = n.normalizedPlan,
                                                 !.taskBreakdown = b,
                                                 !.schedule = sch, !.prioritization = pri,
                                                 !.optimizedSchedule = opt, !.qaReport = qa]
           /\ planFields = {"goalPlan", "taskBreakdown", "schedule", "prioritization"}
                             \cup (IF opt = NoValue THEN {} ELSE {"optimizedSchedule"})
                             \cup (IF qa = NoValue THEN {} ELSE {"qaReport"})
  /\ planPc = "context"
  /\ builtPlan = NoPlan

BuildFinalPlan ==
  /\ planPc = "context"
  /\ builtPlan' = buildFinalPlan(planContext, planFields, "u1", 0)
  /\ planPc' = "built"
  /\ UNCHANGED <<planContext, planFields>>
  /\ UNCHANGED <<varsOrch, varsRecon, varsGate, varsSave>>

IdlePlan ==
  /\ planContext = EmptyContext
  /\ planFields = {}
  /\ planPc = "idle"
  /\ builtPlan = NoPlan

\* ---------------------------------------------------------------------
\* savePlan: the plan's goals, milestones and tasks written to the database.
DbBase == 1000
DbGoalId(i) == DbBase + i
DbProjectId(i) == 2 * DbBase + i
DbMilestoneId(i, j) == 3 * DbBase + 10 * i + j
NoDbId == 0

RECURSIVE DbGoalMapUpTo(_, _)
\* goalMap after goals 1..n: set(goal.id, dbGoal.id); set(`goal_${i}`, dbGoal.id)
DbGoalMapUpTo(goals, n) ==
  IF n = 0 THEN EmptyMap
  ELSE MapSet(MapSet(DbGoalMapUpTo(goals, n - 1), goals[n].id, DbGoalId(n)),
              GoalAlias(n), DbGoalId(n))

RECURSIVE DbProjectMapUpTo(_, _)
DbProjectMapUpTo(goals, n) ==
  IF n = 0 THEN EmptyMap
  ELSE MapSet(MapSet(DbProjectMapUpTo(goals, n - 1), goals[n].id, DbProjectId(n)),
              GoalAlias(n), DbProjectId(n))

RECURSIVE DbMilestoneMapUpTo(_, _, _)
\* milestoneMap after goals 1..i-1 and milestones 1..j of goal i: every key
\* is set unconditionally
DbMilestoneMapUpTo(goals, i, j) ==
  IF i = 0 THEN EmptyMap
  ELSE IF j = 0 THEN
    DbMilestoneMapUpTo(goals, i - 1, IF i = 1 THEN 0 ELSE Len(goals[i - 1].milestones))
  ELSE MapSet(MapSet(MapSet(DbMilestoneMapUpTo(goals, i, j - 1),
                            goals[i].milestones[j].id, DbMilestoneId(i, j)),
                     MilestoneAlias(j), DbMilestoneId(i, j)),
              MilestoneAliasPadded(j), DbMilestoneId(i, j))

\* projectFirstMilestoneMap.get(dbProjectId)
ProjectFirstMilestone(goals, dbProjectId) ==
  LET own == {i \in 1..Len(goals) :
                DbProjectId(i) = dbProjectId /\ Len(goals[i].milestones) > 0}
  IN IF own = {} THEN NoDbId ELSE DbMilestoneId(CHOOSE i \in own : TRUE, 1)

\* A task whose goal cannot be resolved makes the transaction fail.
SaveTaskOrRaise(plan, task) ==
  LET goalMap == DbGoalMapUpTo(plan.goals, Len(plan.goals))
  IN IF task.goalId \in DOMAIN goalMap \/ Len(plan.goals) = 1
     THEN [saved |-> TRUE, raises |-> FALSE,
           row |-> [task |-> task.id, goalId |-> DbGoalId(1), projectId |-> DbProjectId(1),
                    milestoneId |-> NoDbId]]
     ELSE [saved |-> FALSE, raises |-> TRUE,
           row |-> [task |-> task.id, goalId |-> NoDbId, projectId |-> NoDbId,
                    milestoneId |-> NoDbId]]

\* One turn of the loop over plan.tasks: the row created, or the task skipped.
SaveTask(plan, task) ==
  LET goals == plan.goals
      goalMap == DbGoalMapUpTo(goals, Len(goals))
      projectMap == DbProjectMapUpTo(goals, Len(goals))
      milestoneMap ==
        DbMilestoneMapUpTo(goals, Len(goals),
                           IF Len(goals) = 0 THEN 0 ELSE Len(goals[Len(goals)].milestones))
      found == task.goalId \in DOMAIN goalMap
      fallback == ~found /\ Len(goals) = 1
      dbGoalId == IF found THEN goalMap[task.goalId]
                  ELSE IF fallback THEN DbGoalId(1) ELSE NoDbId
      dbProjectId == IF fallback THEN DbProjectId(1)
                     ELSE IF task.goalId \in DOMAIN projectMap THEN projectMap[task.goalId]
                     ELSE NoDbId
      dbMilestoneId == IF task.milestoneId \in DOMAIN milestoneMap
                       THEN milestoneMap[task.milestoneId]
                       ELSE IF dbProjectId # NoDbId
                       THEN ProjectFirstMilestone(goals, dbProjectId)
                       ELSE NoDbId
  IN [saved |-> dbGoalId # NoDbId /\ dbProjectId # NoDbId,
      raises |-> FALSE,
      row |-> [task |-> task.id, goalId |-> dbGoalId, projectId |-> dbProjectId,
               milestoneId |-> dbMilestoneId]]

NoSaveResult == [rows |-> <<>>, savedTasks |-> 0, skippedTasks |-> 0, raised |-> FALSE]

RECURSIVE SaveTasksUpTo(_, _)
\* The transaction after tasks 1..n; a raise leaves the later tasks untouched.
SaveTasksUpTo(plan, n) ==
  IF n = 0 THEN NoSaveResult
  ELSE LET before == SaveTasksUpTo(plan, n - 1)
           t == SaveTask(plan, plan.tasks[n])
       IN IF before.raised THEN before
          ELSE IF t.raises THEN [before EXCEPT !.raised = TRUE]
          ELSE IF t.saved
          THEN [before EXCEPT !.rows = Append(@, t.row), !.savedTasks = @ + 1]
          ELSE [before EXCEPT !.skippedTasks = @ + 1]

savePlan(plan) == SaveTasksUpTo(plan, Len(plan.tasks))

\* What a task of a plan may name as its goal: a goal of the plan by its id,
\* a positional name, or nothing the plan knows.
SaveGoalRefs == {CreateId(1), CreateId(MaxGoals), GoalAlias(1), UnknownGoalRef}

SaveInputs ==
  { [goals |-> [i \in 1..n |->
                  [id |-> CreateId(i),
                   milestones |-> [j \in 1..c |-> [id |-> CreateId(10 * i + j)]]]],
     tasks |-> [k \in 1..Len(refs) |->
                  [id |-> CreateId(50 + k), goalId |-> refs[k], milestoneId |-> ms]]] :
      n \in 0..MaxGoals, c \in 0..MaxMilestones,
      refs \in UNION { [1..m -> SaveGoalRefs] : m \in 0..MaxTasks },
      ms \in {CreateId(11), MilestoneDefault} }

InitSave ==
  /\ savePc = "plan"
  /\ saveInput \in SaveInputs
  /\ saveResult = NoSaveResult

SavePlan ==
  /\ savePc = "plan"
  /\ saveResult' = savePlan(saveInput)
  /\ savePc' = "saved"
  /\ UNCHANGED saveInput
  /\ UNCHANGED <<varsOrch, varsRecon, varsGate, varsPlan>>

IdleSave ==
  /\ savePc = "idle"
  /\ saveInput = [goals |-> <<>>, tasks |-> <<>>]
  /\ saveResult = NoSaveResult

\* ============================================================ specifications
\* The orchestrator with its store.
Init == InitOrch /\ IdleRecon /\ IdleGate /\ IdlePlan /\ IdleSave
Spec == Init /\ [][Next]_vars

\* The reconciliation engine, run twice on every raw output within the bounds.
InitR == InitRecon /\ IdleOrch /\ IdleGate /\ IdlePlan /\ IdleSave
SpecRecon == InitR /\ [][NextRecon]_vars

\* The checkpoint gate on every checkpoint.
InitG == InitGate /\ IdleOrch /\ IdleRecon /\ IdlePlan /\ IdleSave
NextGate == AssertCheckpoint
SpecGate == InitG /\ [][NextGate]_vars

\* The reconciliation engine on the breakdowns of a worker that names goals
\* by the ids it was given.
GivenBreakdowns ==
  { [tasks |-> [k \in 1..n |->
                  [id |-> TaskAlias(k), goalId |-> refs[k], milestoneIndex |-> idx[k],
                   dependencies |-> <<>>, estimatedMinutes |-> 30]],
     dependencyGraph |-> [k \in 1..n |-> <<TaskAlias(k), <<>>>>],
     criticalPath |-> [k \in 1..n |-> TaskAlias(k)],
     totalEffortMinutes |-> 30 * n] :
      <<n, refs, idx>> \in
        UNION { {n} \X { [k \in 1..n |-> GivenGoalRef(IF k = 1 THEN a ELSE b)] :
                           a \in 1..MaxGoals, b \in 1..MaxGoals }
                    \X { [k \in 1..n |-> 1], [k \in 1..n |-> k] } :
                n \in 1..MaxTasks } }

InitGiven ==
  /\ rawGoalPlan \in RawGoalPlans
  /\ rawBreakdown \in GivenBreakdowns
  /\ reconPc = "raw"
  /\ reconRun = 1
  /\ idCounter = 0
  /\ reconGoalPlan = EmptyGoalPlan
  /\ reconGoalIdMap = EmptyMap
  /\ reconMilestoneIdMap = EmptyMap
  /\ reconBreakdown = EmptyBreakdown
  /\ firstGoalPlan = EmptyGoalPlan
  /\ firstBreakdown = EmptyBreakdown

InitH == InitGiven /\ IdleOrch /\ IdleGate /\ IdlePlan /\ IdleSave
SpecGiven == InitH /\ [][NextRecon]_vars

\* savePlan on every plan within the bounds.
InitS == InitSave /\ IdleOrch /\ IdleRecon /\ IdleGate /\ IdlePlan
NextSave == SavePlan
SpecSave == InitS /\ [][NextSave]_vars

\* The final plan built from every context within the bounds.
InitP == InitPlan /\ IdleOrch /\ IdleRecon /\ IdleGate /\ IdleSave
NextPlan == BuildFinalPlan
SpecPlan == InitP /\ [][NextPlan]_vars

\* =================================================================== claims
RECURSIVE FlatMilestoneIds(_, _)
FlatMilestoneIds(goals, n) ==
  IF n = 0 THEN <<>>
  ELSE FlatMilestoneIds(goals, n - 1)
         \o [j \in 1..Len(goals[n].milestones) |-> goals[n].milestones[j].id]

\* The ids of the goals, the milestones and the tasks, in plan order.
EntityIds(plan, breakdown) ==
  [i \in 1..Len(plan.goals) |-> plan.goals[i].id]
    \o FlatMilestoneIds(plan.goals, Len(plan.goals))
    \o [k \in 1..Len(breakdown.tasks) |-> breakdown.tasks[k].id]

MilestoneIdsOf(goal) == {goal.milestones[j].id : j \in 1..Len(goal.milestones)}

\* C5: after Pass 2 every task's milestoneId is an id of a milestone of the
\* goal whose id the task carries (the sentinel when that goal has no
\* milestones, or when the plan has no goal), and is never an id of a
\* milestone of another goal.
C5_MilestoneOfResolvedGoal ==
  reconPc = "tasks" =>
    \A k \in 1..Len(reconBreakdown.tasks) :
      LET t == reconBreakdown.tasks[k]
          goals == reconGoalPlan.goals
          own == {i \in 1..Len(goals) : goals[i].id = t.goalId}
      IN /\ Len(goals) > 0 => Cardinality(own) = 1
         /\ \A i \in own :
              IF Len(goals[i].milestones) = 0 THEN t.milestoneId = MilestoneDefault
              ELSE t.milestoneId \in MilestoneIdsOf(goals[i])
         /\ \A h \in (1..Len(goals)) \ own : t.milestoneId \notin MilestoneIdsOf(goals[h])
         /\ Len(goals) = 0 => t.milestoneId = MilestoneDefault

\* Two goals that both name their first milestone milestone_1, and a task of
\* each goal with milestoneIndex 1.
C5_Witness ==
  /\ reconPc = "tasks"
  /\ Len(rawGoalPlan.goals) = 2
  /\ \A i \in 1..2 : /\ Len(rawGoalPlan.goals[i].milestones) >= 1
                     /\ rawGoalPlan.goals[i].milestones[1].id = MilestoneAlias(1)
  /\ Len(reconBreakdown.tasks) = 2
  /\ \A i \in 1..2 : /\ reconBreakdown.tasks[i].goalId = reconGoalPlan.goals[i].id
                     /\ reconBreakdown.tasks[i].milestoneIndex = 1
                     /\ reconBreakdown.tasks[i].milestoneId
                          = reconGoalPlan.goals[i].milestones[1].id

C1_RaisesIffCannotContinue ==
  gateOutcome.state # "pending" =>
    (gateOutcome.state = "raised" <=> ~gateCheckpoint.canContinue)

\* ---------------------------------------------- claims on the orchestrator
PhaseOf(s) ==
  CASE s \in {"IntentParser", "UserContext"} -> "foundation"
    [] s = "GoalPlanner" -> "planning_goals"
    [] s = "TaskBreaker" -> "planning_tasks"
    [] s \in {"Scheduler", "Prioritizer"} -> "scheduling"
    [] s \in {"TimeOptimizer", "QAReview"} -> "quality"
PhaseIndex(p) ==
  CASE p = "foundation" -> 1
    [] p = "planning_goals" -> 2
    [] p = "planning_tasks" -> 3
    [] p = "scheduling" -> 4
    [] p = "quality" -> 5
GatedStages == {"IntentParser", "GoalPlanner", "TaskBreaker"}
Returned == pc = "returned"

\* What the stage gave the running call: settled in this call, or persisted.
StageOutput(s) ==
  IF stage[s].status # "idle" THEN stage[s]
  ELSE IF runId # 0 /\ HasPersisted(runs, runId, PhaseOf(s))
  THEN runs[runId].phaseResults[PhaseOf(s)][s]
  ELSE IdleStage

ReturnedFailingCheckpoint(s) ==
  StageOutput(s).status = "fulfilled" /\ ~StageOutput(s).checkpoint.canContinue

RECURSIVE ProducedUpTo(_)
\* The checkpoints the stages of phases 1..n produced, in pipeline order.
ProducedUpTo(n) ==
  IF n = 0 THEN <<>>
  ELSE LET ss == PhaseStages(PhaseNames[n])
           RECURSIVE OfPhase(_)
           OfPhase(k) ==
             IF k = 0 THEN <<>>
             ELSE OfPhase(k - 1)
                    \o (IF StageOutput(ss[k]).status = "fulfilled"
                        THEN <<StageOutput(ss[k]).checkpoint>> ELSE <<>>)
       IN ProducedUpTo(n - 1) \o OfPhase(Len(ss))

NoLaterStageStarted(s) ==
  \A k \in 1..Len(invoked) : PhaseIndex(PhaseOf(invoked[k])) <= PhaseIndex(PhaseOf(s))

GateAborted(s) ==
  /\ ~result.success
  /\ NoLaterStageStarted(s)
  /\ result.checkpoints = ProducedUpTo(PhaseIndex(PhaseOf(s)))

PhaseJoined(s) ==
  \A t \in Range(PhaseStages(PhaseOf(s))) : StageOutput(t).status = "fulfilled"

C3_SiblingCheckpointKept ==
  (/\ Returned
   /\ stage["Scheduler"].status = "rejected"
   /\ stage["Scheduler"].transport
   /\ stage["Prioritizer"].status = "fulfilled")
    => \E k \in 1..Len(result.checkpoints) :
         result.checkpoints[k] = stage["Prioritizer"].checkpoint

PlanningPhases == {"foundation", "planning_goals", "planning_tasks"}
PlanningStages == {"IntentParser", "UserContext", "GoalPlanner", "TaskBreaker"}

\* The call started with no run id while the user's latest recoverable run
\* held the Foundation and Planning results.
ResumesPastPlanning ==
  /\ pc # "idle"
  /\ callInput.resumeFromStateId = 0
  /\ callStart.latest # 0
  /\ PlanningPhases \subseteq callStart.persisted

\* C4: such a call works on that run, starts none of the Foundation and
\* Planning stages, starts the Scheduling stages first when Scheduling was
\* not persisted, and enters Scheduling with the persisted results in its
\* context.
C4_ResumeSkipsToScheduling ==
  ResumesPastPlanning =>
    /\ runId = callStart.latest
    /\ Range(invoked) \cap PlanningStages = {}
    /\ ("scheduling" \notin callStart.persisted /\ Len(invoked) > 0)
         => Len(invoked) >= 2 /\ invoked[1] = "Scheduler" /\ invoked[2] = "Prioritizer"
    /\ pc = "scheduling" =>
         /\ context.intent = runs[runId].phaseResults["foundation"]["IntentParser"].result
         /\ context.userContext = runs[runId].phaseResults["foundation"]["UserContext"].result
         /\ {"goalPlan", "taskBreakdown"} \subseteq contextSet
         /\ Len(context.goalPlan.goals)
              = Len(runs[runId].phaseResults["planning_goals"]["GoalPlanner"].result.goals)

C4_Witness ==
  /\ ResumesPastPlanning
  /\ callStart.persisted = PlanningPhases
  /\ calls = 2
  /\ invoked = <<"Scheduler", "Prioritizer">>
  /\ Len(context.taskBreakdown.tasks) = MaxTasks

\* C6: in the plan of a successful run the id of every goal, milestone and
\* task is a stable id, and none is an id or alias a worker produced.
C6_PlanIdsAreStable ==
  (Returned /\ result.success) =>
    LET ids == EntityIds(result.plan, result.plan)
    IN \A k \in 1..Len(ids) : IsStableId(ids[k])

C6_Witness ==
  /\ Returned
  /\ result.success
  /\ Len(result.plan.goals) = MaxGoals
  /\ Len(result.plan.goals[1].milestones) = MaxMilestones
  /\ Len(result.plan.tasks) = MaxTasks

\* C8: a stage raises only on a transport failure, and a stage whose worker
\* answered with a null or empty payload returns a failing checkpoint that
\* carries at least one issue.
C8_EmptyPayloadIsSoftFailure ==
  \A s \in StageNames :
    /\ stage[s].status = "rejected" => stage[s].transport
    /\ (Settled(s) /\ ~stage[s].transport /\ stage[s].payload \in {"null", "empty"}) =>
         /\ stage[s].status = "fulfilled"
         /\ ~stage[s].checkpoint.isValid
         /\ Len(stage[s].checkpoint.criticalIssues) >= 1

\* C9: in one call no stage is started twice, stages are started in phase
\* order, and whenever a stage of a phase has been started every stage of
\* the earlier phases that the call started has settled.
C9_PhasesInOrder ==
  /\ \A k, l \in 1..Len(invoked) :
       k < l => /\ invoked[k] # invoked[l]
                /\ PhaseIndex(PhaseOf(invoked[k])) <= PhaseIndex(PhaseOf(invoked[l]))
  /\ \A s, t \in Range(invoked) :
       PhaseIndex(PhaseOf(t)) < PhaseIndex(PhaseOf(s)) => Settled(t)
  /\ InPhase(pc) => \A s \in Range(invoked) : PhaseIndex(PhaseOf(s)) <= PhaseIndex(pc)

C9_Witness ==
  /\ invoked = <<"IntentParser", "UserContext", "GoalPlanner", "TaskBreaker",
                 "Scheduler", "Prioritizer", "TimeOptimizer", "QAReview">>
  /\ stage["TimeOptimizer"].status = "running"
  /\ stage["QAReview"].status = "fulfilled"

IsolatedStages == {"Scheduler", "Prioritizer", "TimeOptimizer", "QAReview"}

\* C10: when a run has ended on a transport failure of a Scheduling or
\* Quality stage, every stage of that phase has settled; no stage of these
\* phases is ever left in flight by a call that has returned.
C10_FailureSurfacesAfterSibling ==
  /\ zombies \cap IsolatedStages = {}
  /\ Returned =>
       \A s \in IsolatedStages :
         (stage[s].status = "rejected" /\ stage[s].transport) =>
           \A t \in Range(PhaseStages(PhaseOf(s))) : Settled(t)

C10_Witness ==
  /\ Returned
  /\ ~result.success
  /\ stage["QAReview"].status = "rejected"
  /\ stage["QAReview"].transport
  /\ stage["TimeOptimizer"].status = "fulfilled"
  /\ result.errors = <<stage["QAReview"].error>>

\* C11: a finished run in which a Scheduling or Quality stage returned a
\* checkpoint with canContinue=false and no stage failed in transport has
\* success=true and returns that checkpoint in its list.
C11_UngatedCheckpointNeverAborts ==
  Returned =>
    \A s \in IsolatedStages :
      (/\ stage[s].status = "fulfilled"
       /\ ~stage[s].checkpoint.canContinue
       /\ \A t \in StageNames : ~stage[t].transport)
        => /\ result.success
           /\ \E k \in 1..Len(result.checkpoints) :
                result.checkpoints[k] = stage[s].checkpoint

\* The stage a failed run's error came from, and the phase it belongs to.
FailedStage(err) ==
  IF err.kind = "checkpoint"
  THEN CHOOSE s \in StageNames : CheckpointPhase(s) = err.phase
  ELSE err.stage

\* The context fields written once phases 1..n have run to their end.
FieldsAfter(n) ==
  (IF n >= 1 THEN {"intent", "userContext"} ELSE {})
    \cup (IF n >= 2 THEN {"goalPlan"} ELSE {})
    \cup (IF n >= 3 THEN {"taskBreakdown"} ELSE {})
    \cup (IF n >= 4 THEN {"schedule", "prioritization"} ELSE {})
    \cup (IF n >= 5 THEN {"optimizedSchedule", "qaReport"} ELSE {})

\* C12: a failed run has returned a result with success=false and exactly
\* one error; the checkpoints are those of the phases that joined before
\* the failure (the failing gate's phase included), the context holds
\* exactly the fields written before the failure, with their values, and
\* no stage of a later phase was started.
C12_FailedRunResult ==
  (Returned /\ ~result.success) =>
    /\ Len(result.errors) = 1
    /\ LET err == result.errors[1]
           s == FailedStage(err)
           n == PhaseIndex(PhaseOf(s))
           gate == err.kind = "checkpoint"
       IN /\ NoLaterStageStarted(s)
          /\ result.checkpoints = ProducedUpTo(IF gate THEN n ELSE n - 1)
          /\ result.contextSet = FieldsAfter(IF gate /\ n = 1 THEN 1 ELSE n - 1)
          /\ result.context = context
          /\ "intent" \in result.contextSet
               => result.context.intent = StageOutput("IntentParser").result
          /\ "schedule" \in result.contextSet
               => result.context.schedule = StageOutput("Scheduler").result
          /\ \A f \in {"schedule", "prioritization", "optimizedSchedule", "qaReport"}
                        \ result.contextSet : result.context[f] = NoValue

C12_Witness ==
  /\ Returned
  /\ ~result.success
  /\ result.errors[1].kind = "transport"
  /\ result.errors[1].stage = "TimeOptimizer"
  /\ result.contextSet = FieldsAfter(4)
  /\ Len(result.checkpoints) = 6

\* C14: in every step of a call whose abort signal has been raised, no
\* stage is started and nothing is written to the context or to the
\* checkpoint list.
C14_AbortStopsRun ==
  [][(aborted /\ aborted') =>
       /\ invoked' = invoked
       /\ contextSet' = contextSet
       /\ checkpoints' = checkpoints]_vars

\* The runs of the caller that were recoverable when the call began.
RecoverableAtStart ==
  {i \in 1..Len(callStart.store) :
     callStart.store[i].userId = callInput.userId /\ ~callStart.store[i].terminal}

C16_TerminalIffDone ==
  \A i \in 1..Len(runs) :
    /\ runs[i].terminal <=> i \in doneRuns
    /\ i \in doneRuns => \A u \in Users \cup {OtherUser} : i \notin RecoverableIds(runs, u)
    /\ i \notin doneRuns => i \in RecoverableIds(runs, runs[i].userId)

C16_Witness ==
  /\ calls = 2
  /\ Returned
  /\ runs[1].userId \in Users
  /\ 1 \in doneRuns
  /\ runId = 2
  /\ ~result.success
  /\ ~runs[2].terminal
  /\ callStart.store[1].terminal

\* C17: after Pass 2 a task whose raw milestoneIndex k lies between 1 and
\* the number of milestones of the goal it was resolved to carries the id
\* of that goal's k-th milestone; any other task carries the id of the
\* goal's first milestone, or the sentinel when the goal has no milestone
\* (or the plan no goal).
C17_MilestoneByIndex ==
  reconPc = "tasks" =>
    \A k \in 1..Len(reconBreakdown.tasks) :
      LET t == reconBreakdown.tasks[k]
          idx == rawBreakdown.tasks[k].milestoneIndex
          goals == reconGoalPlan.goals
          own == {i \in 1..Len(goals) : goals[i].id = t.goalId}
      IN IF own = {} THEN t.milestoneId = MilestoneDefault
         ELSE \A i \in own :
                LET ms == goals[i].milestones
                IN t.milestoneId =
                     (IF idx >= 1 /\ idx <= Len(ms) THEN ms[idx].id
                      ELSE IF Len(ms) > 0 THEN ms[1].id
                      ELSE MilestoneDefault)

\* One goal with two milestones and three tasks with milestoneIndex 1, 1, 2.
C17_Witness ==
  /\ reconPc = "tasks"
  /\ Len(reconGoalPlan.goals) = 1
  /\ Len(reconGoalPlan.goals[1].milestones) = 2
  /\ Len(reconBreakdown.tasks) = 3
  /\ rawBreakdown.tasks[1].milestoneIndex = 1
  /\ rawBreakdown.tasks[2].milestoneIndex = 1
  /\ rawBreakdown.tasks[3].milestoneIndex = 2
  /\ reconBreakdown.tasks[1].milestoneId = reconGoalPlan.goals[1].milestones[1].id
  /\ reconBreakdown.tasks[2].milestoneId = reconGoalPlan.goals[1].milestones[1].id
  /\ reconBreakdown.tasks[3].milestoneId = reconGoalPlan.goals[1].milestones[2].id
  /\ IsStableId(reconBreakdown.tasks[3].milestoneId)
  /\ Len(reconBreakdown.tasks[3].dependencies) > 0
  /\ reconBreakdown.tasks[3].dependencies[1] = reconBreakdown.tasks[1].id

PipelineOrder == <<"IntentParser", "UserContext", "GoalPlanner", "TaskBreaker",
                   "Scheduler", "Prioritizer", "TimeOptimizer", "QAReview">>

\* C18: a successful run returns the assembled plan and eight checkpoints,
\* the k-th being the checkpoint of the k-th stage of the pipeline (the one
\* the stage returned, when the stage ran in this call).
C18_SuccessReturnsAllCheckpoints ==
  (Returned /\ result.success) =>
    /\ IsStableId(result.plan.id)
    /\ result.plan.goals = result.context.goalPlan.goals
    /\ result.plan.tasks = result.context.taskBreakdown.tasks
    /\ Len(result.checkpoints) = Len(PipelineOrder)
    /\ \A k \in 1..Len(PipelineOrder) :
         /\ result.checkpoints[k].phase = CheckpointPhase(PipelineOrder[k])
         /\ stage[PipelineOrder[k]].status = "fulfilled"
              => result.checkpoints[k] = stage[PipelineOrder[k]].checkpoint

C18_Witness ==
  /\ Returned
  /\ result.success
  /\ Len(result.checkpoints) = 8
  /\ ~result.checkpoints[2].canContinue
  /\ ~result.checkpoints[7].canContinue
  /\ result.checkpoints[8].canContinue
  /\ invoked = PipelineOrder

RECURSIVE SumMinutes(_, _)
SumMinutes(tasks, n) ==
  IF n = 0 THEN 0 ELSE SumMinutes(tasks, n - 1) + tasks[n].estimatedMinutes

\* C20: in the plan of a successful run metadata.totalTasks is the number of
\* the plan's tasks and metadata.totalEffortMinutes is the sum of their
\* estimatedMinutes.
C20_TotalsFromTaskList ==
  (Returned /\ result.success) =>
    /\ result.plan.metadata.totalTasks = Len(result.plan.tasks)
    /\ result.plan.metadata.totalEffortMinutes
         = SumMinutes(result.plan.tasks, Len(result.plan.tasks))

\* C19: the schedule of the plan is the Optimizer's schedule when an
\* optimized schedule is present in the context, and the Scheduler's raw
\* schedule otherwise.
C19_ScheduleOfPlan ==
  planPc = "built" =>
    /\ planContext.optimizedSchedule # NoValue
         => /\ builtPlan.schedule = planContext.optimizedSchedule
            /\ builtPlan.schedule.by = "TimeOptimizer"
    /\ planContext.optimizedSchedule = NoValue
         => /\ builtPlan.schedule = planContext.schedule
            /\ builtPlan.schedule.by = "Scheduler"

C19_Witness ==
  /\ planPc = "built"
  /\ planContext.optimizedSchedule # NoValue
  /\ planContext.optimizedSchedule # planContext.schedule
  /\ builtPlan.schedule.by = "TimeOptimizer"

\* ------------------------------------------- claims on the id maps of Pass 1
\* The first goal, in plan order, that has a j-th milestone; 0 if none has.
FirstGoalWithMilestone(goals, j) ==
  LET has == {i \in 1..Len(goals) : Len(goals[i].milestones) >= j}
  IN IF has = {} THEN 0 ELSE CHOOSE i \in has : \A h \in has : i <= h

\* C23: after Pass 1 each bare positional key milestone_j of milestoneIdMap
\* maps to the stable id of the j-th milestone of the first goal, in plan
\* order, that has a j-th milestone: no later goal's milestone overwrites it.
C23_BareKeyFirstGoalWins ==
  reconPc = "goals" =>
    \A j \in 1..MaxMilestones + 1 :
      LET g == FirstGoalWithMilestone(reconGoalPlan.goals, j)
      IN IF g = 0 THEN <<MilestoneAlias(j)>> \notin DOMAIN reconMilestoneIdMap
         ELSE /\ <<MilestoneAlias(j)>> \in DOMAIN reconMilestoneIdMap
              /\ reconMilestoneIdMap[<<MilestoneAlias(j)>>]
                   = reconGoalPlan.goals[g].milestones[j].id

\* Both names of every goal are bound to that goal's stable id.
GoalNamesBound ==
  \A i \in 1..Len(rawGoalPlan.goals) :
    /\ rawGoalPlan.goals[i].id \in DOMAIN reconGoalIdMap
    /\ GoalAlias(i) \in DOMAIN reconGoalIdMap
    /\ reconGoalIdMap[rawGoalPlan.goals[i].id] = reconGoalPlan.goals[i].id
    /\ reconGoalIdMap[GoalAlias(i)] = reconGoalPlan.goals[i].id

\* C24 as stated: after Pass 1, for every goal at index i, goalIdMap maps the
\* goal's own ephemeral id and the positional alias goal_i to that goal's
\* stable id.
C24_GoalNamesBound ==
  reconPc = "goals" => GoalNamesBound

\* No goal's own id is the own id or the positional alias of another goal.
GoalNamesDisjoint ==
  \A i \in 1..Len(rawGoalPlan.goals) : \A h \in 1..Len(rawGoalPlan.goals) :
    i # h => /\ rawGoalPlan.goals[i].id # rawGoalPlan.goals[h].id
             /\ rawGoalPlan.goals[i].id # GoalAlias(h)

\* C24: after Pass 1 on a plan in which no goal's own id is the own id or the
\* positional alias of another goal, goalIdMap maps each goal's own id and
\* its positional alias goal_i to that goal's stable id, distinct goals have
\* distinct stable ids, and the map has no other key.
C24_GoalNamesBoundWhenDisjoint ==
  (reconPc = "goals" /\ GoalNamesDisjoint) =>
    /\ GoalNamesBound
    /\ \A i \in 1..Len(reconGoalPlan.goals) : \A h \in 1..Len(reconGoalPlan.goals) :
         i # h => reconGoalPlan.goals[i].id # reconGoalPlan.goals[h].id
    /\ DOMAIN reconGoalIdMap
         = {rawGoalPlan.goals[i].id : i \in 1..Len(rawGoalPlan.goals)}
             \cup {GoalAlias(i) : i \in 1..Len(rawGoalPlan.goals)}

\* Two goals the worker gave ids of its own, neither a positional name.
C24_Witness ==
  /\ reconPc = "goals"
  /\ GoalNamesDisjoint
  /\ Len(rawGoalPlan.goals) = 2
  /\ rawGoalPlan.goals[1].id # GoalAlias(1)
  /\ reconGoalIdMap[rawGoalPlan.goals[2].id] = reconGoalPlan.goals[2].id
  /\ reconGoalIdMap[GoalAlias(2)] = reconGoalPlan.goals[2].id

\* ------------------------------------------- claims on the reference lists
\* The stable id of the goal the worker's name x denotes (of the last such
\* goal, should two carry the name); x itself when it names no goal.
StableGoalOf(x) ==
  LET named == {i \in 1..Len(rawGoalPlan.goals) :
                  rawGoalPlan.goals[i].id = x \/ GoalAlias(i) = x}
  IN IF named = {} THEN x
     ELSE reconGoalPlan.goals[CHOOSE i \in named : \A h \in named : h <= i].id

StableTaskOf(x) ==
  LET named == {k \in 1..Len(rawBreakdown.tasks) :
                  rawBreakdown.tasks[k].id = x \/ TaskAlias(k) = x}
  IN IF named = {} THEN x
     ELSE reconBreakdown.tasks[CHOOSE k \in named : \A h \in named : h <= k].id

\* list after is list before with every entry replaced in place.
RewrittenGoals(before, after) ==
  /\ Len(after) = Len(before)
  /\ \A k \in 1..Len(before) : after[k] = StableGoalOf(before[k])

RewrittenTasks(before, after) ==
  /\ Len(after) = Len(before)
  /\ \A k \in 1..Len(before) : after[k] = StableTaskOf(before[k])

ListsRewritten ==
  /\ RewrittenGoals(rawGoalPlan.priorityRanking, reconGoalPlan.priorityRanking)
  /\ Len(reconBreakdown.tasks) = Len(rawBreakdown.tasks)
  /\ \A k \in 1..Len(rawBreakdown.tasks) :
       RewrittenTasks(rawBreakdown.tasks[k].dependencies,
                      reconBreakdown.tasks[k].dependencies)
  /\ RewrittenTasks(rawBreakdown.criticalPath, reconBreakdown.criticalPath)

\* Entry n of the worker's graph is in the reconciled graph, key and values
\* rewritten.
GraphEntryKept(n) ==
  LET entry == rawBreakdown.dependencyGraph[n]
  IN /\ StableTaskOf(entry[1]) \in DOMAIN reconBreakdown.dependencyGraph
     /\ RewrittenTasks(entry[2], reconBreakdown.dependencyGraph[StableTaskOf(entry[1])])

GraphKeysRewritten ==
  DOMAIN reconBreakdown.dependencyGraph
    = {StableTaskOf(rawBreakdown.dependencyGraph[n][1]) :
         n \in 1..Len(rawBreakdown.dependencyGraph)}

\* C25 as stated: after Pass 2 every reference list is the worker's list
\* rewritten entry by entry, and the dependency graph has as many entries as
\* the worker's, each with its key and its values rewritten.
C25_ReferencesRewritten ==
  reconPc = "tasks" =>
    /\ ListsRewritten
    /\ GraphKeysRewritten
    /\ Cardinality(DOMAIN reconBreakdown.dependencyGraph)
         = Len(rawBreakdown.dependencyGraph)
    /\ \A n \in 1..Len(rawBreakdown.dependencyGraph) : GraphEntryKept(n)

\* Entry n is the last entry of the worker's graph whose key names its task.
LastEntryOfItsTask(n) ==
  \A h \in 1..Len(rawBreakdown.dependencyGraph) :
    StableTaskOf(rawBreakdown.dependencyGraph[h][1])
      = StableTaskOf(rawBreakdown.dependencyGraph[n][1]) => h <= n

\* C25: after Pass 2 the priority ranking, every task's dependencies and the
\* critical path are the worker's lists rewritten entry by entry (a known
\* name replaced by its stable id, an unknown name unchanged, same length,
\* same order); the keys of the dependency graph are the worker's keys
\* rewritten, and each key holds the rewritten values of the last entry the
\* worker gave for that task.
C25_ReferencesRewrittenLastEntryWins ==
  reconPc = "tasks" =>
    /\ ListsRewritten
    /\ GraphKeysRewritten
    /\ \A n \in 1..Len(rawBreakdown.dependencyGraph) :
         LastEntryOfItsTask(n) => GraphEntryKept(n)

\* Task 3 depends on task 1 by the worker's own id and by task_1, task 1 on
\* a task that does not exist.
C25_Witness ==
  /\ reconPc = "tasks"
  /\ Len(rawBreakdown.tasks) = 3
  /\ rawBreakdown.tasks[1].id # TaskAlias(1)
  /\ rawBreakdown.tasks[3].dependencies = <<rawBreakdown.tasks[1].id, TaskAlias(1)>>
  /\ reconBreakdown.tasks[3].dependencies
       = <<reconBreakdown.tasks[1].id, reconBreakdown.tasks[1].id>>
  /\ reconBreakdown.tasks[1].dependencies = <<UnknownTaskRef>>
  /\ IsStableId(reconBreakdown.tasks[1].id)
  /\ Len(reconGoalPlan.priorityRanking) = 3

\* C26: a task whose goalId is the stable id of a goal of the reconciled goal
\* plan, the id the Task-Breakdown stage was given, carries that same goal id
\* after Pass 2, whichever goal of the plan it is.
C26_GivenGoalIdKept ==
  reconPc = "tasks" =>
    \A k \in 1..Len(rawBreakdown.tasks) :
      \A i \in 1..Len(reconGoalPlan.goals) :
        rawBreakdown.tasks[k].goalId = GivenGoalRef(i)
          => reconBreakdown.tasks[k].goalId = reconGoalPlan.goals[i].id

\* ------------------------------------------------------- claims on savePlan
\* The goal reference of task k of the plan being saved can be resolved: it
\* is the id or the positional name of a goal of the plan, or the plan has
\* exactly one goal.
RefResolves(k) ==
  \/ Len(saveInput.goals) = 1
  \/ \E i \in 1..Len(saveInput.goals) :
       saveInput.tasks[k].goalId \in {saveInput.goals[i].id, GoalAlias(i)}

\* C21: savePlan does not fail on a task whose goal reference cannot be
\* resolved: exactly the tasks whose reference resolves are saved, in plan
\* order, every other task is skipped, and savedTasks + skippedTasks is the
\* number of tasks of the plan.
C21_UnresolvedTasksSkipped ==
  savePc = "saved" =>
    LET kept == {k \in 1..Len(saveInput.tasks) : RefResolves(k)}
    IN /\ ~saveResult.raised
       /\ saveResult.savedTasks + saveResult.skippedTasks = Len(saveInput.tasks)
       /\ saveResult.savedTasks = Cardinality(kept)
       /\ Len(saveResult.rows) = saveResult.savedTasks
       /\ {saveResult.rows[r].task : r \in 1..Len(saveResult.rows)}
            = {saveInput.tasks[k].id : k \in kept}
       /\ \A r \in 1..Len(saveResult.rows) :
            saveResult.rows[r].goalId # NoDbId /\ saveResult.rows[r].projectId # NoDbId

\* Two goals, three tasks: the second names no goal of the plan and is
\* skipped, the first and the third are saved.
C21_Witness ==
  /\ savePc = "saved"
  /\ Len(saveInput.goals) = 2
  /\ Len(saveInput.tasks) = 3
  /\ RefResolves(1) /\ ~RefResolves(2) /\ RefResolves(3)
  /\ saveResult.savedTasks = 2
  /\ saveResult.skippedTasks = 1

\* ------------------------------------- further claims on the orchestrator
\* The call is past Foundation, whose stages gave it a passing Intent
\* checkpoint and a User-Context checkpoint with canContinue=false.
PastFoundationWithFailingUserContext ==
  /\ pc \notin {"idle", "foundation"}
  /\ StageOutput("IntentParser").status = "fulfilled"
  /\ ~assertCheckpointRaises(StageOutput("IntentParser").checkpoint)
  /\ ReturnedFailingCheckpoint("UserContext")

\* C22: a User-Context checkpoint with canContinue=false is the second
\* checkpoint of the list and does not abort the run: with a passing Intent
\* checkpoint the call goes on to Goal-Planning.
C22_UserContextNotGated ==
  PastFoundationWithFailingUserContext =>
    /\ Len(checkpoints) >= 2
    /\ checkpoints[2] = StageOutput("UserContext").checkpoint
    /\ \/ pc = "planning_goals"
       \/ "GoalPlanner" \in Range(invoked)
       \/ HasPersisted(runs, runId, "planning_goals")

C22_Witness ==
  /\ PastFoundationWithFailingUserContext
  /\ calls = 1
  /\ invoked = <<"IntentParser", "UserContext", "GoalPlanner">>
  /\ ~checkpoints[2].canContinue
  /\ checkpoints[2].phase = "user_context"

\* C27: a call that fails with the transport error of a Scheduling or
\* Quality stage has invoked that stage itself: a call that resumes a run
\* which failed that way starts the stages of the phase again and does not
\* fail with the stored error.
C27_FailedPhaseNotPersisted ==
  (/\ Returned
   /\ ~result.success
   /\ result.errors[1].kind = "transport"
   /\ result.errors[1].stage \in IsolatedStages)
    => result.errors[1].stage \in Range(invoked)

\* C28: a call made with new input and no resume id that is aborted by a
\* fail-fast gate has itself invoked the stage whose checkpoint the gate
\* refused: it is never aborted by the checkpoint an earlier, aborted run
\* left in the store.
C28_NewInputRunsAfresh ==
  (/\ Returned
   /\ callInput.resumeFromStateId = 0
   /\ ~result.success
   /\ result.errors[1].kind = "checkpoint")
    => \E s \in GatedStages :
         /\ CheckpointPhase(s) = result.errors[1].phase
         /\ s \in Range(invoked)

\* C29: after the terminal orchestration_complete or orchestration_error
\* event of a call, no agent_start, agent_complete, agent_error or progress
\* event is sent, whatever phase the call ended in.
C29_NoEventAfterTerminal ==
  \A k \in 2..Len(sentFromTerminal) :
    sentFromTerminal[k] \notin {"agent_start", "agent_complete", "agent_error", "progress"}

\* The phases of the running call's run whose stages were invoked by an
\* earlier call and not by this one: their persisted results are reused.
ReusedPhases ==
  {p \in Range(PhaseNames) :
     /\ <<runId, p>> \in DOMAIN handedIds
     /\ Range(PhaseStages(p)) \cap Range(invoked) = {}}

\* C30: in the plan of a successful call that reused persisted phase
\* results, the ids of the goals, milestones and tasks include every id the
\* stages of the reused phases were given in their arguments.
C30_ResumeKeepsIds ==
  (Returned /\ result.success) =>
    \A p \in ReusedPhases :
      handedIds[<<runId, p>>] \subseteq Range(EntityIds(result.plan, result.plan))

====
